---------------------------- MODULE Spec2Model ----------------------------
(***************************************************************************)
(* Service lifecycle manager of the conduit CLI (cli/internal/service):    *)
(* the three platform backends (systemd, launchd, Windows SCM) behind the  *)
(* Manager interface, the supervisor state they act on, and the service    *)
(* process as far as it moves the supervisor's state.                      *)
(*                                                                         *)
(* One CLI invocation runs at a time (pc = "idle" between invocations).    *)
(* Operations that only run a straight line of calls are one action;       *)
(* Uninstall (stop phase, wait, removal) and the Windows Stop (issue, then *)
(* poll) are split at the points where the service process can move.       *)
(* Every external call that can fail takes its failure from an input.      *)
(***************************************************************************)
EXTENDS Integers, Sequences, FiniteSets, TLC

\* ------------------------------------------------------------------ bounds

\* How many polls of a waiting Stop the model follows (the loop of
\* windowsManager.Stop has no counter of its own).
MaxPolls == 3

\* for i := 0; i < 30; i++ in windowsManager.Uninstall
UninstallWaitPolls == 30

\* ------------------------------------------------------------------ inputs

Backends == {"systemd", "launchd", "windows"}

\* --max-clients values given to install (0: flag set to zero)
MaxClientsValues == {0, 50}

\* --bandwidth values in tenths of Mbps (0, and 2.5)
BandwidthTenths == {0, 25}

ConfigPaths == {"", "/etc/conduit/psiphon.json"}

VerboseValues == {FALSE}

InstallOptionsSet ==
    [MaxClients : MaxClientsValues, BandwidthTenths : BandwidthTenths,
     PsiphonConfigPath : ConfigPaths, Verbose : VerboseValues]

\* ------------------------------------------------------------------ formatting

Digit(d) ==
    CASE d = 0 -> "0" [] d = 1 -> "1" [] d = 2 -> "2" [] d = 3 -> "3"
      [] d = 4 -> "4" [] d = 5 -> "5" [] d = 6 -> "6" [] d = 7 -> "7"
      [] d = 8 -> "8" [] d = 9 -> "9"

RECURSIVE FmtInt(_)
\* fmt.Sprintf("%d", n), n >= 0
FmtInt(n) == IF n < 10 THEN Digit(n) ELSE FmtInt(n \div 10) \o Digit(n % 10)

\* fmt.Sprintf("%.1f", x) for x = t/10, t >= 0
FmtFloat1(t) == FmtInt(t \div 10) \o "." \o Digit(t % 10)

Range(f) == {f[k] : k \in DOMAIN f}

\* ------------------------------------------------------------------ descriptors

NoDescriptor == [exists |-> FALSE, args |-> << >>]

\* os.Create has truncated the file and template execution wrote nothing usable
TruncatedDescriptor == [exists |-> TRUE, args |-> << >>]

\* the option part of the argument list, common to all three Install methods
OptionArgs(opts) ==
    (IF opts.PsiphonConfigPath # "" THEN <<"--psiphon-config", opts.PsiphonConfigPath>> ELSE << >>)
    \o (IF opts.MaxClients > 0 THEN <<"--max-clients", FmtInt(opts.MaxClients)>> ELSE << >>)
    \o (IF opts.BandwidthTenths > 0 THEN <<"--bandwidth", FmtFloat1(opts.BandwidthTenths)>> ELSE << >>)
    \o (IF opts.Verbose THEN <<"--verbose">> ELSE << >>)

\* ExecStart of the unit file: execPath + " " + strings.Join(args, " ")
SystemdArgs(opts) ==
    <<"conduit", "start">> \o OptionArgs(opts) \o <<"--data-dir", "/var/lib/conduit">>

\* ProgramArguments of the plist
LaunchdArgs(opts) ==
    <<"conduit", "start">> \o OptionArgs(opts) \o <<"--data-dir", "dataDir">>

\* binary path and arguments of the service registration
WindowsArgs(opts) ==
    <<"conduit", "service", "run">> \o OptionArgs(opts) \o <<"--data-dir", "dataDir">>

\* the header values when the descriptor names none
DefaultMaxClients == "200"
DefaultBandwidth == "5"

\* index of the first token of args that is flag (0: none)
FlagIndex(args, flag) ==
    IF \E k \in 1..Len(args) : args[k] = flag
    THEN CHOOSE k \in 1..Len(args) : args[k] = flag /\ \A j \in 1..(k - 1) : args[j] # flag
    ELSE 0

\* systemd and windows: strings.Index(cmdLine, flag + " "), then
\* fmt.Sscanf(part, "%s", &value) reads the token after the flag; value keeps
\* its default when there is no flag or nothing after it
CmdLineValue(args, flag, default) ==
    LET k == FlagIndex(args, flag)
    IN  IF k = 0 \/ k = Len(args) THEN default ELSE args[k + 1]

\* the plist as template.Execute writes ProgramArguments: for every argument
\* the pieces <string>, the argument, </string>
RECURSIVE PlistPieces(_)
PlistPieces(args) ==
    IF args = << >> THEN << >>
    ELSE <<"<string>", Head(args), "</string>">> \o PlistPieces(Tail(args))

\* index of the last piece of ps that ends in ">" (0: none)
LastTagIndex(ps) ==
    IF \E k \in 1..Len(ps) : ps[k] \in {"<string>", "</string>"}
    THEN CHOOSE k \in 1..Len(ps) :
            /\ ps[k] \in {"<string>", "</string>"}
            /\ \A j \in (k + 1)..Len(ps) : ps[j] \notin {"<string>", "</string>"}
    ELSE 0

\* launchd: part = content[idx:] from the flag, subPart = part up to the
\* first "</string>", and the value is what follows the last ">" of subPart;
\* value keeps its default when one of the three is not found
PlistValue(args, flag, default) ==
    LET ps == PlistPieces(args)
        idx == FlagIndex(ps, flag)
        part == IF idx = 0 THEN << >> ELSE SubSeq(ps, idx, Len(ps))
        endIdx == FlagIndex(part, "</string>")
        subPart == IF endIdx = 0 THEN << >> ELSE SubSeq(part, 1, endIdx - 1)
        startIdx == LastTagIndex(subPart)
    IN  IF idx = 0 \/ endIdx = 0 \/ startIdx = 0 THEN default
        ELSE IF startIdx = Len(subPart) THEN "" ELSE subPart[startIdx + 1]

\* Max Clients and Bandwidth of the StatusFollow header
HeaderOf(b, d) ==
    IF b = "launchd"
    THEN [maxClients |-> PlistValue(d.args, "--max-clients", DefaultMaxClients),
          bandwidth |-> PlistValue(d.args, "--bandwidth", DefaultBandwidth)]
    ELSE [maxClients |-> CmdLineValue(d.args, "--max-clients", DefaultMaxClients),
          bandwidth |-> CmdLineValue(d.args, "--bandwidth", DefaultBandwidth)]

NoHeader == [maxClients |-> "", bandwidth |-> ""]

RenderDescriptor(b, opts) ==
    [exists |-> TRUE,
     args |-> CASE b = "systemd" -> SystemdArgs(opts)
                [] b = "launchd" -> LaunchdArgs(opts)
                [] b = "windows" -> WindowsArgs(opts)]

\* ------------------------------------------------------------------ log lines

\* Lines the log stream delivers to one session, and seconds the clock runs
MaxLines == 3
MaxTime == 2

\* The longest uptime, in seconds, a relay writes into a stats line
MaxDuration == 3725

\* Control requests the supervisor sends to one run of the service handler
MaxRequests == 2

\* Signals the operator sends to one run of the start command
MaxSignals == 2

\* Addresses one capture returns, collections one collector starts, and calls
\* of GetResults made
MaxIPs == 2
MaxCollections == 2
MaxGets == 1

\* The text of a stats line up to its first field, and the connection phrase
StatsTag == "[STATS] Clients: "
ConnectedPhrase == "[OK] Connected to Psiphon network"

\* A log line is its leading text, the fields that follow it in a stats line
\* (Clients as a word, Up and Down as their characters up to the "|", the
\* uptime as its <<number, unit>> components) -- empty in any other line.
NoField == << >>

OtherLine == [head |-> "[INFO] Starting", Clients |-> "", Up |-> NoField, Down |-> NoField,
              Uptime |-> NoField]

ConnectedLine == [OtherLine EXCEPT !.head = ConnectedPhrase]

\* [STATS] Clients: 1 | Up: 1K | Down: 2K | Uptime: 2s
StatsLineA == [head |-> StatsTag, Clients |-> "1", Up |-> <<"1", "K", " ">>,
               Down |-> <<"2", "K", " ">>, Uptime |-> <<[n |-> 2, u |-> "s"]>>]

\* [STATS] Clients: 2 | Up: 3K | Down: 4K | Uptime: 1m1s
StatsLineB == [head |-> StatsTag, Clients |-> "2", Up |-> <<"3", "K", " ">>,
               Down |-> <<"4", "K", " ">>,
               Uptime |-> <<[n |-> 1, u |-> "m"], [n |-> 1, u |-> "s"]>>]

\* [STATS] Clients: 3 | Up: 5K | Down: 6K | Uptime: 7    (a number without unit)
StatsLineNoUnit == [head |-> StatsTag, Clients |-> "3", Up |-> <<"5", "K", " ">>,
                    Down |-> <<"6", "K", " ">>, Uptime |-> <<[n |-> 7, u |-> ""]>>]

LogLines == {OtherLine, ConnectedLine, StatsLineA, StatsLineB, StatsLineNoUnit}

RECURSIVE TrimLeft(_)
TrimLeft(cs) == IF cs # << >> /\ Head(cs) = " " THEN TrimLeft(Tail(cs)) ELSE cs

RECURSIVE TrimRight(_)
TrimRight(cs) ==
    IF cs # << >> /\ cs[Len(cs)] = " " THEN TrimRight(SubSeq(cs, 1, Len(cs) - 1)) ELSE cs

\* strings.TrimSpace
TrimSpace(cs) == TrimRight(TrimLeft(cs))

\* *Stats; nil is the nil pointer
NilStats == [nil |-> TRUE, Clients |-> "", Upload |-> NoField, Download |-> NoField,
             Uptime |-> NoField, Connected |-> FALSE]

\* a parse that takes every line for a sample
ParseStatsLineAnyLine(l) ==
    [nil |-> FALSE, Clients |-> l.Clients, Upload |-> TrimSpace(l.Up),
     Download |-> TrimSpace(l.Down), Uptime |-> l.Uptime, Connected |-> FALSE]

\* ParseStatsLine: the pattern needs the tag and four non-empty fields
ParseStatsLine(l) ==
    IF l.head = StatsTag /\ l.Clients # "" /\ l.Up # NoField /\ l.Down # NoField
         /\ l.Uptime # NoField
    THEN [nil |-> FALSE, Clients |-> l.Clients, Upload |-> TrimSpace(l.Up),
          Download |-> TrimSpace(l.Down), Uptime |-> l.Uptime, Connected |-> FALSE]
    ELSE NilStats

\* IsConnectedLine
IsConnectedLine(l) == l.head = ConnectedPhrase

\* an hour taken for a minute
UnitSecondsShortHour(u) ==
    CASE u = "h" -> 60
      [] u = "m" -> 60
      [] u = "s" -> 1
      [] OTHER -> 0

\* seconds in a unit of time.ParseDuration (0: not a unit)
UnitSeconds(u) ==
    CASE u = "h" -> 3600
      [] u = "m" -> 60
      [] u = "s" -> 1
      [] OTHER -> 0

RECURSIVE SumUptime(_)
SumUptime(cs) ==
    IF cs = << >> THEN 0 ELSE Head(cs).n * UnitSeconds(Head(cs).u) + SumUptime(Tail(cs))

\* parseUptime (time.ParseDuration): an error for an empty string and for a
\* missing or unknown unit, else the sum of the components, in seconds
parseUptime(cs) ==
    IF cs = << >> \/ \E k \in 1..Len(cs) : UnitSeconds(cs[k].u) = 0
    THEN [err |-> TRUE, d |-> 0]
    ELSE [err |-> FALSE, d |-> SumUptime(cs)]

\* formatDuration of d seconds: "%dh%dm%ds", "%dm%ds" or "%ds". The divisions
\* of Go truncate towards zero, so a negative d prints its seconds only.
formatDuration(d) ==
    IF d < 0 THEN <<[n |-> 0 - ((0 - d) % 60), u |-> "s"]>>
    ELSE LET h == d \div 3600
             m == (d % 3600) \div 60
             sec == d % 60
         IN  IF h > 0 THEN <<[n |-> h, u |-> "h"], [n |-> m, u |-> "m"], [n |-> sec, u |-> "s"]>>
             ELSE IF m > 0 THEN <<[n |-> m, u |-> "m"], [n |-> sec, u |-> "s"]>>
             ELSE <<[n |-> sec, u |-> "s"]>>

\* uptime fields that match \S+ and are no duration: "7" and "1d"
MalformedUptimes == {<<[n |-> 7, u |-> ""]>>, <<[n |-> 1, u |-> "d"]>>}

\* [STATS] Clients: 1 | Up: 1K | Down: 2K | Uptime: <up>
UptimeLine(up) == [StatsLineA EXCEPT !.Uptime = up]

\* time.Time: the zero value, or an instant in seconds
ZeroTime == [zero |-> TRUE, at |-> 0]
TimeAt(t) == [zero |-> FALSE, at |-> t]
\* a test that takes every time for the zero value
IsZeroAlways(t) == TRUE

IsZero(t) == t.zero

\* The answers to the queries for the start of the service process. systemd:
\* systemctl show fails; its output lacks the prefix or time.Parse fails; it
\* parses. launchd and windows: launchctl list, Query, ps or PowerShell
\* fails; there is no PID above 0; time.Parse fails; it parses.
Stamps(b) ==
    IF b = "systemd" THEN {"queryFailed", "unparseable", "ok"}
    ELSE {"queryFailed", "noPid", "unparseable", "ok"}

\* The time a timestamp parses to. systemd and windows: one before the
\* session began. launchd: the local time that ps prints, parsed by time.Parse
\* as UTC, which in a zone east of UTC is ahead of the clock
ParsedStartTime(b) == IF b = "launchd" THEN TimeAt(61) ELSE TimeAt(0 - 124)

\* var serviceStartTime time.Time, assigned only where time.Parse succeeds
ResolveStartTime(b, st) == IF st = "ok" THEN ParsedStartTime(b) ELSE ZeroTime

\* the start times the sessions followed here are given: on systemd each one
\* StatusFollow can pass, on launchd the one that parsed
ServiceStartTimes(b) ==
    IF b = "launchd" THEN {ResolveStartTime(b, "ok")}
    ELSE {ResolveStartTime(b, st) : st \in Stamps(b)}

\* the uptime added instead of subtracted
DeriveStartTimeAhead(t, d) == TimeAt(t + d)

\* startTime = time.Now().Add(-uptime)
DeriveStartTime(t, d) == TimeAt(t - d)

\* the placeholders of the display loop
PlaceholderClients == "0"
PlaceholderBytes == <<"0", " ", "B">>
PlaceholderUptime == <<[n |-> 0, u |-> "..."]>>

NoOutput == [printed |-> FALSE, cursorUp |-> 0, lines |-> 0, status |-> "", clients |-> "",
             upload |-> NoField, download |-> NoField, uptime |-> NoField]

\* a terminal block written without moving the cursor back up
RenderNoCursor(tty, st, c, u, d, up) ==
    [printed |-> TRUE, cursorUp |-> 0, lines |-> IF tty THEN 5 ELSE 1,
     status |-> IF tty THEN st ELSE "", clients |-> c, upload |-> u, download |-> d,
     uptime |-> up]

\* what one tick writes: on a terminal ESC[5A and the five lines Status,
\* Clients, Upload, Download, Uptime; else the one line Clients | Up | Down |
\* Uptime, which has no status
Render(tty, st, c, u, d, up) ==
    [printed |-> TRUE, cursorUp |-> IF tty THEN 5 ELSE 0, lines |-> IF tty THEN 5 ELSE 1,
     status |-> IF tty THEN st ELSE "", clients |-> c, upload |-> u, download |-> d,
     uptime |-> up]

\* a lock that does not exclude, and an unlock that does not release
MuCanLockAlways(m) == TRUE
MuAfterUnlockHeld(m) == m

\* sync.Mutex: Lock returns when the mutex is free, Unlock frees it
MuCanLock(m) == m = "free"
MuAfterUnlock(m) == "free"

\* ------------------------------------------------------------------ state

VARIABLES
    backend,        \* the backend compiled in (build tag)
    euidRoot,       \* the operator runs the CLI as root / Administrator
    descriptor,     \* unit file / plist / service registration
    dataDir,        \* the data directory exists
    enabled,        \* systemd: unit enabled
    recovery,       \* windows: recovery actions set
    eventSrc,       \* windows: event-log source registered
    svcState,       \* run state the supervisor holds for the service
    pc,             \* position of the running CLI invocation
    op,             \* the operation invoked last
    result,         \* what it returned ("none" while it runs)
    statusOut,      \* state reported by the last Status
    faulted,        \* an external call of the last operation failed by injection
    polls,          \* polls made by the waiting Stop
    waitI,          \* i of the wait loop in the Windows Uninstall
    stopAttempted,  \* this Uninstall has run its stop phase
    stopIssued,     \* this Uninstall has issued a stop to the supervisor
    stopFailed,     \* the stop it issued failed, and the error was dropped
    observedState,  \* the state this Uninstall saw when it began its stop phase
    preExists,      \* a descriptor existed when the last operation was invoked
    preInstalled,   \* an Install had succeeded, with no Uninstall since, at that time
    installedOk,    \* an Install has succeeded and no Uninstall was invoked since
    startedOk,      \* a Start has succeeded since the last Install of a stopped service
    uninstalledOk,  \* the operation before this Status was an Uninstall that
                    \* removed an existing descriptor and returned ok
    stateAtReturn,  \* svcState when the last operation returned
    logFile,        \* the log file of the service exists (launchd, windows)
    stamp,          \* what the platform answered when the StatusFollow that is
                    \* following asked for the start of the process
    header,         \* Max Clients and Bandwidth in the header it printed
    \* the telemetry session of DisplayLiveStats
    serviceStartTime, \* the start time StatusFollow passed in
    isTTY,          \* standard output is a terminal
    mu,             \* holder of the mutex: "free", "producer" or "consumer"
    lastStats,      \* the latest sample
    startTime,      \* start time of the session
    connected,      \* connected flag
    ppc,            \* position of the reading goroutine
    line,           \* scanner.Text() of the line it is processing
    nread,          \* lines the stream has delivered
    cpc,            \* position of the display loop
    status,         \* locals of the display loop: what it is about to print
    clients,
    upload,
    download,
    uptime,
    now,            \* the clock, in seconds
    tickReady,      \* the ticker has a tick waiting in its channel
    out,            \* what this tick has printed
    firstSample,    \* the first stats sample the reading goroutine processed
    firstParsed,    \* the first one whose uptime parsed
    phraseSeen,     \* it has processed a line with the connection phrase
    shownConnected, \* a tick has printed status Connected
    prevUptime,     \* the uptime the tick before this one printed on its one line
    lastTagged,     \* the last line read that has the format of a stats line
    relayUptime,    \* seconds the relay formatted into the uptime field of the
                    \* first line (-1: it is not known to be a duration)
    \* one run of ConduitService.Execute
    xpc,            \* position of Execute
    reports,        \* the states it has sent on changes, in order
    rpc,            \* position of the goroutine that runs the relay function
    relayErr,       \* what the relay function returned: "nil" or "err"
    errChan,        \* content of errChan, which buffers one value
    ctxDone,        \* the context of the relay is cancelled
    request,        \* the control request the supervisor is sending on r
    nreq,           \* requests it has sent
    exitCode,       \* the exit code Execute returned (-1: none yet)
    via,            \* the case of the select Execute left its loop by
    ownEnd,         \* the relay function returned before the context was cancelled
    endedFirst,     \* it returned before Execute took a Stop or Shutdown request
    errLogged,      \* writeToLog has written a service error
    \* one run of the foreground start command (runStart)
    spc,            \* position of runStart
    sigChan,        \* signals waiting in sigChan, which buffers one
    sigpc,          \* position of the goroutine that waits on sigChan
    nsig,           \* signals the operator has sent
    startCtx,       \* ctx of runStart is cancelled
    runErr,         \* what service.Run returned: "nil" or "err"
    startResult,    \* what runStart returned: "nil" or "error"
    startOut,       \* the lines it has printed after the banner, in order
    failedAlone,    \* service.Run returned while ctx was not cancelled
    \* one geo collector and one caller of GetResults
    gpc,            \* position of Start and of the goroutine run
    gctx,           \* the context given to Start is cancelled
    gtick,          \* the ticker has a tick waiting in ticker.C
    ncollect,       \* collections started
    ips,            \* ips of collect: what CaptureIPs returned, until LookupIPs
                    \* has used it or the next collection begins
    found,          \* results of collect: what LookupIPs returned to it
    results,        \* c.results
    gmu,            \* c.mu: "free", "reader" or "writer"
    qpc,            \* position of the caller of GetResults
    nget,           \* calls of GetResults made
    rangeOver,      \* the slice the range clause of this call evaluated
    getOut,         \* out of GetResults
    atRLock         \* c.results when this call took the read lock

vars == <<backend, euidRoot, descriptor, dataDir, enabled, recovery, eventSrc,
          svcState, pc, op, result, statusOut, faulted, polls, waitI,
          stopAttempted, stopIssued, stopFailed, observedState, preExists,
          preInstalled, installedOk, startedOk, uninstalledOk, stateAtReturn,
          logFile, stamp, header, serviceStartTime, isTTY, mu, lastStats, startTime, connected, ppc,
          line, nread, cpc, status, clients, upload, download, uptime, now, tickReady,
          out, firstSample, firstParsed, phraseSeen, shownConnected, prevUptime,
          lastTagged, relayUptime, xpc, reports, rpc, relayErr, errChan, ctxDone, request,
          nreq, exitCode, via, ownEnd, endedFirst, errLogged, spc, sigChan, sigpc, nsig,
          startCtx, runErr, startResult, startOut, failedAlone, gpc, gctx, gtick, ncollect,
          ips, found, results, gmu, qpc, nget, rangeOver, getOut, atRLock>>

platform == <<backend, euidRoot>>
uninstallVars == <<waitI, stopAttempted, stopIssued, stopFailed, observedState>>

\* the state of the service manager
manager == <<backend, euidRoot, descriptor, dataDir, enabled, recovery, eventSrc, svcState, pc,
             op, result, statusOut, faulted, polls, uninstallVars, preExists, preInstalled,
             installedOk, startedOk, uninstalledOk, stateAtReturn, logFile, stamp, header>>

\* the state of a run of the Windows service handler
handler == <<xpc, reports, rpc, relayErr, errChan, ctxDone, request, nreq, exitCode, via,
             ownEnd, endedFirst, errLogged>>

\* the state of a run of the foreground start command
foreground == <<spc, sigChan, sigpc, nsig, startCtx, runErr, startResult, startOut,
                failedAlone>>

\* the state of a geo collector and of the caller of GetResults
collector == <<gpc, gctx, gtick, ncollect, ips, found, results, gmu>>
caller == <<qpc, nget, rangeOver, getOut, atRLock>>

\* the processes other than the service manager and the service handler
process == <<foreground, collector, caller>>

\* the state of a telemetry session
shared == <<lastStats, startTime, connected>>
producer == <<ppc, line, nread>>
consumer == <<cpc, status, clients, upload, download, uptime>>
ghosts == <<firstSample, firstParsed, phraseSeen, shownConnected, prevUptime, lastTagged,
            relayUptime>>
session == <<serviceStartTime, isTTY, mu, shared, producer, consumer, now, tickReady, out,
             ghosts>>

\* ------------------------------------------------------------------ geo results

\* a slice of Result: the nil slice, and a slice with items
NilSlice == [nil |-> TRUE, items |-> << >>]
Slice(items) == [nil |-> FALSE, items |-> items]

\* Result{}: the zero value make fills a new slice with
ZeroResult == [Code |-> "", Count |-> 0]

\* an address is modelled by what geoiplookup answers for it: the code of a
\* country, or "" when the command fails or its output names no country
Answers == {"IR", "US", ""}

\* CaptureIPs returns an error, or the addresses it captured
Captures ==
    {[err |-> TRUE, list |-> << >>]}
        \cup {[err |-> FALSE, list |-> l] : l \in UNION {[1..n -> Answers] : n \in 0..MaxIPs}}

\* counts[code] of LookupIPs
CountOf(list, code) == Cardinality({i \in 1..Len(list) : list[i] = code})

\* the slices LookupIPs can return for a list of addresses: one Result for
\* each code counted, in an order sort.Slice can leave them in (greater
\* counts first, equal counts in either order)
LookupIPs(list) ==
    LET counted == {c \in Answers \ {""} : CountOf(list, c) > 0}
        n == Cardinality(counted)
    IN  {s \in [1..n -> [Code : counted, Count : 1..Len(list)]] :
            /\ \A i, j \in 1..n : (i # j) => (s[i].Code # s[j].Code)
            /\ \A i \in 1..n : s[i].Count = CountOf(list, s[i].Code)
            /\ \A i, j \in 1..n : (i < j) => ~(s[j].Count > s[i].Count)}

\* ------------------------------------------------------------------ idle processes

\* the start command is not running
NoForeground ==
    /\ spc = "none"
    /\ sigChan = 0
    /\ sigpc = "none"
    /\ nsig = 0
    /\ startCtx = FALSE
    /\ runErr = "none"
    /\ startResult = "none"
    /\ startOut = << >>
    /\ failedAlone = FALSE

\* no call of GetResults has been made
NoCaller ==
    /\ qpc = "idle"
    /\ nget = 0
    /\ rangeOver = NilSlice
    /\ getOut = NilSlice
    /\ atRLock = NilSlice

\* no collector exists
NoCollector ==
    /\ gpc = "none"
    /\ gctx = FALSE
    /\ gtick = FALSE
    /\ ncollect = 0
    /\ ips = [err |-> FALSE, list |-> << >>]
    /\ found = NilSlice
    /\ results = NilSlice
    /\ gmu = "free"
    /\ NoCaller

NoProcess == NoForeground /\ NoCollector

\* no service process is followed from inside
NoHandler ==
    /\ xpc = "none"
    /\ reports = << >>
    /\ rpc = "none"
    /\ relayErr = "none"
    /\ errChan = "empty"
    /\ ctxDone = FALSE
    /\ request = "none"
    /\ nreq = 0
    /\ exitCode = 0 - 1
    /\ via = "none"
    /\ ownEnd = FALSE
    /\ endedFirst = FALSE
    /\ errLogged = FALSE

ManagerInit ==
    /\ NoHandler
    /\ backend \in Backends
    /\ euidRoot \in BOOLEAN
    /\ descriptor = NoDescriptor
    /\ dataDir = FALSE
    /\ enabled = FALSE
    /\ recovery = FALSE
    /\ eventSrc = FALSE
    /\ svcState = "Stopped"
    /\ pc = "idle"
    /\ op = "none"
    /\ result = "none"
    /\ statusOut = "none"
    /\ faulted = FALSE
    /\ polls = 0
    /\ waitI = 0
    /\ stopAttempted = FALSE
    /\ stopIssued = FALSE
    /\ stopFailed = FALSE
    /\ observedState = "none"
    /\ preExists = FALSE
    /\ preInstalled = FALSE
    /\ installedOk = FALSE
    /\ startedOk = FALSE
    /\ uninstalledOk = FALSE
    /\ stateAtReturn = "Stopped"
    /\ logFile = FALSE
    /\ stamp = "none"
    /\ header = NoHeader

\* what is not the session's own start: the state DisplayLiveStats sets up
SessionStart ==
    /\ mu = "free"
    /\ lastStats = NilStats
    /\ startTime = serviceStartTime
    /\ connected = FALSE
    /\ line = OtherLine
    /\ nread = 0
    /\ status = ""
    /\ clients = ""
    /\ upload = NoField
    /\ download = NoField
    /\ uptime = NoField
    /\ now = 0
    /\ tickReady = FALSE
    /\ out = NoOutput
    /\ firstSample = [seen |-> FALSE, err |-> FALSE, at |-> 0, d |-> 0]
    /\ firstParsed = [seen |-> FALSE, err |-> FALSE, at |-> 0, d |-> 0]
    /\ phraseSeen = FALSE
    /\ shownConnected = FALSE
    /\ prevUptime = NoField
    /\ lastTagged = OtherLine
    /\ relayUptime = 0 - 1

\* no session is open
NoSession ==
    /\ serviceStartTime = ZeroTime
    /\ isTTY = FALSE
    /\ ppc = "none"
    /\ cpc = "none"
    /\ SessionStart

\* the service manager, with no session open
Init == ManagerInit /\ NoSession /\ NoProcess

\* ------------------------------------------------------------------ helpers

\* position of a step in the order in which an operation makes its calls
Pos(order, x) == CHOOSE k \in 1..Len(order) : order[k] = x

\* `step` was reached and did not fail, when `fault` is the call that fails
Passed(order, fault, step) == fault = "none" \/ Pos(order, step) < Pos(order, fault)

\* the descriptor can be run by the supervisor
Runnable(d) == d.exists /\ d.args # << >>

\* bookkeeping at the invocation of an operation
Enter ==
    /\ preExists' = descriptor.exists
    /\ preInstalled' = installedOk

\* the locals of Stop and Uninstall do not outlive the next invocation
ResetLocals ==
    /\ polls' = 0
    /\ waitI' = 0
    /\ stopAttempted' = FALSE
    /\ stopIssued' = FALSE
    /\ stopFailed' = FALSE
    /\ observedState' = "none"

\* bookkeeping at the return of operation o with result r
Done(o, r, f) ==
    /\ pc' = "idle"
    /\ op' = o
    /\ result' = r
    /\ faulted' = f
    /\ uninstalledOk' = IF o = "Status" THEN uninstalledOk
                         ELSE (o = "Uninstall" /\ r = "ok" /\ preExists' /\ ~descriptor'.exists)
    /\ stateAtReturn' = svcState'

\* what a returning Install records
InstallBook(r) ==
    /\ installedOk' = (installedOk \/ r = "ok")
    /\ startedOk' = IF r = "ok" /\ svcState = "Stopped" THEN FALSE ELSE startedOk

\* ------------------------------------------------------------------ Install

SystemdInstallOrder == <<"path", "mkdir", "create", "write", "reload", "enable">>

\* systemdManager.Install: root check first, then the calls in order
SystemdInstallResult(root, fault) ==
    IF ~root THEN "PermissionDenied"
    ELSE IF fault = "none" THEN "ok" ELSE "BackendFailure"

SystemdInstall ==
    /\ backend = "systemd"
    /\ pc = "idle"
    /\ \E opts \in InstallOptionsSet, fault \in Range(SystemdInstallOrder) \cup {"none"} :
         LET ran(step) == euidRoot /\ Passed(SystemdInstallOrder, fault, step)
             r == SystemdInstallResult(euidRoot, fault)
         IN  /\ euidRoot \/ fault = "none"
             /\ dataDir' = (dataDir \/ ran("mkdir"))
             \* os.Create truncates an existing file; there is no existence check
             /\ descriptor' = IF ran("write") THEN RenderDescriptor("systemd", opts)
                               ELSE IF ran("create") THEN TruncatedDescriptor
                               ELSE descriptor
             /\ enabled' = (enabled \/ ran("enable"))
             /\ InstallBook(r)
             /\ UNCHANGED <<process, platform, handler, header, session, stamp, logFile, recovery, eventSrc, svcState>>
             /\ ResetLocals
             /\ statusOut' = "none"
             /\ Enter
             /\ Done("Install", r, fault # "none")

LaunchdInstallOrder == <<"path", "mkdir", "create", "write">>

\* launchdManager.Install: no privilege check (NewLaunchdManager picks the
\* system paths for root and the per-user paths otherwise), no existence check
LaunchdInstallResult(root, fault) ==
    IF fault = "none" THEN "ok" ELSE "BackendFailure"

LaunchdInstall ==
    /\ backend = "launchd"
    /\ pc = "idle"
    /\ \E opts \in InstallOptionsSet, fault \in Range(LaunchdInstallOrder) \cup {"none"} :
         LET ran(step) == Passed(LaunchdInstallOrder, fault, step)
             r == LaunchdInstallResult(euidRoot, fault)
         IN  /\ dataDir' = (dataDir \/ ran("mkdir"))
             /\ descriptor' = IF ran("write") THEN RenderDescriptor("launchd", opts)
                               ELSE IF ran("create") THEN TruncatedDescriptor
                               ELSE descriptor
             /\ InstallBook(r)
             /\ UNCHANGED <<process, platform, handler, header, session, stamp, logFile, enabled, recovery, eventSrc, svcState>>
             /\ ResetLocals
             /\ statusOut' = "none"
             /\ Enter
             /\ Done("Install", r, fault # "none")

\* "recovery" and "eventlog" are the two calls whose failure is only warned about
WindowsInstallOrder == <<"path", "mkdir", "connect", "exists", "create", "recovery", "eventlog">>

\* mgr.Connect fails for a caller who is not Administrator
WindowsConnect(root) == root

\* scm.OpenService(ServiceName) succeeds
WindowsServiceExists(d) == d.exists

\* a failure to set the recovery actions treated as fatal
WindowsInstallStopAuxFatal(root, d, fault) ==
    IF fault = "path" THEN "path"
    ELSE IF fault = "mkdir" THEN "mkdir"
    ELSE IF ~root THEN "connect"
    ELSE IF d.exists THEN "exists"
    ELSE IF fault = "create" THEN "create"
    ELSE IF fault = "recovery" THEN "recovery"
    ELSE "none"

\* the first call of windowsManager.Install that makes it return an error
WindowsInstallStop(root, d, fault) ==
    IF fault = "path" THEN "path"
    ELSE IF fault = "mkdir" THEN "mkdir"
    ELSE IF ~WindowsConnect(root) THEN "connect"
    ELSE IF WindowsServiceExists(d) THEN "exists"
    ELSE IF fault = "create" THEN "create"
    ELSE "none"

WindowsInstallResult(stop) ==
    CASE stop = "none" -> "ok"
      [] stop = "connect" -> "PermissionDenied"
      [] stop = "exists" -> "AlreadyInstalled"
      [] OTHER -> "BackendFailure"

WindowsInstall ==
    /\ backend = "windows"
    /\ pc = "idle"
    /\ \E opts \in InstallOptionsSet,
          fault \in {"none", "path", "mkdir", "create", "recovery", "eventlog"} :
         LET stop == WindowsInstallStop(euidRoot, descriptor, fault)
             ran(step) == Passed(WindowsInstallOrder, stop, step)
             r == WindowsInstallResult(stop)
         IN  \* a fault is injected only into a call that is reached
             /\ fault \in {"recovery", "eventlog", "create"} => stop \in {"none", fault}
             \* os.MkdirAll(m.dataDir) comes before mgr.Connect
             /\ dataDir' = (dataDir \/ ran("mkdir"))
             /\ descriptor' = IF ran("create") THEN RenderDescriptor("windows", opts)
                               ELSE descriptor
             /\ recovery' = IF ran("create") THEN fault # "recovery" ELSE recovery
             /\ eventSrc' = IF ran("create") THEN (eventSrc \/ fault # "eventlog") ELSE eventSrc
             /\ InstallBook(r)
             /\ UNCHANGED <<process, platform, handler, header, session, stamp, logFile, enabled, svcState>>
             /\ ResetLocals
             /\ statusOut' = "none"
             /\ Enter
             /\ Done("Install", r, fault # "none")

\* ------------------------------------------------------------------ Start

\* systemdManager.Start: root check, then systemctl start, which returns when
\* the unit is active or could not be started
SystemdStart ==
    /\ backend = "systemd"
    /\ pc = "idle"
    /\ \E fail \in BOOLEAN :
         LET can == Runnable(descriptor) \/ svcState # "Stopped"
             r == IF ~euidRoot THEN "PermissionDenied"
                  ELSE IF can /\ ~fail THEN "ok" ELSE "BackendFailure"
         IN  /\ fail => euidRoot
             /\ svcState' = IF r = "ok" THEN "Running" ELSE svcState
             /\ startedOk' = (startedOk \/ r = "ok")
             /\ UNCHANGED <<process, platform, handler, header, session, stamp, logFile, descriptor, dataDir, enabled, recovery, eventSrc, installedOk>>
             /\ ResetLocals
             /\ statusOut' = "none"
             /\ Enter
             /\ Done("Start", r, fail)

\* launchdManager.Start: launchctl load; the job runs at load (RunAtLoad).
\* The command's exit status is all that is returned, and it does not say
\* whether anything was loaded.
LaunchdStart ==
    /\ backend = "launchd"
    /\ pc = "idle"
    /\ \E fail \in BOOLEAN :
         LET loads == Runnable(descriptor) /\ svcState = "Stopped" /\ ~fail
             r == IF fail THEN "BackendFailure" ELSE "ok"
         IN  /\ svcState' = IF loads THEN "Running" ELSE svcState
             \* launchd opens StandardOutPath when it runs the job
             /\ logFile' = (logFile \/ loads)
             /\ startedOk' = (startedOk \/ r = "ok")
             /\ UNCHANGED <<process, platform, handler, header, session, stamp, descriptor, dataDir, enabled, recovery, eventSrc, installedOk>>
             /\ ResetLocals
             /\ statusOut' = "none"
             /\ Enter
             /\ Done("Start", r, fail)

\* windowsManager.Start: s.Start() and return, without reading the state back
WindowsStartResult(root, d, st, fail) ==
    IF ~WindowsConnect(root) THEN "PermissionDenied"
    ELSE IF ~WindowsServiceExists(d) THEN "NotInstalled"
    ELSE IF st # "Stopped" \/ fail THEN "BackendFailure"
    ELSE "ok"

WindowsStart ==
    /\ backend = "windows"
    /\ pc = "idle"
    /\ \E fail \in BOOLEAN :
         LET r == WindowsStartResult(euidRoot, descriptor, svcState, fail)
         IN  /\ fail => (euidRoot /\ descriptor.exists /\ svcState = "Stopped")
             /\ svcState' = IF r = "ok" THEN "StartPending" ELSE svcState
             /\ startedOk' = (startedOk \/ r = "ok")
             /\ UNCHANGED <<process, platform, handler, header, session, stamp, logFile, descriptor, dataDir, enabled, recovery, eventSrc, installedOk>>
             /\ ResetLocals
             /\ statusOut' = "none"
             /\ Enter
             /\ Done("Start", r, fail)

\* ------------------------------------------------------------------ Stop

\* systemdManager.Stop: root check, then systemctl stop, which returns when
\* the unit is inactive or could not be stopped
SystemdStop ==
    /\ backend = "systemd"
    /\ pc = "idle"
    /\ \E fail \in BOOLEAN :
         LET known == descriptor.exists \/ svcState # "Stopped"
             r == IF ~euidRoot THEN "PermissionDenied"
                  ELSE IF known /\ ~fail THEN "ok" ELSE "BackendFailure"
         IN  /\ fail => euidRoot
             /\ svcState' = IF r = "ok" THEN "Stopped" ELSE svcState
             /\ UNCHANGED <<process, platform, handler, header, session, stamp, logFile, descriptor, dataDir, enabled, recovery, eventSrc, installedOk, startedOk>>
             /\ ResetLocals
             /\ statusOut' = "none"
             /\ Enter
             /\ Done("Stop", r, fail)

\* launchdManager.Stop: launchctl unload, returning the command's exit status
LaunchdStop ==
    /\ backend = "launchd"
    /\ pc = "idle"
    /\ \E fail \in BOOLEAN :
         LET r == IF fail THEN "BackendFailure" ELSE "ok"
         IN  /\ svcState' = IF fail THEN svcState ELSE "Stopped"
             /\ UNCHANGED <<process, platform, handler, header, session, stamp, logFile, descriptor, dataDir, enabled, recovery, eventSrc, installedOk, startedOk>>
             /\ ResetLocals
             /\ statusOut' = "none"
             /\ Enter
             /\ Done("Stop", r, fail)

\* svc.Stop is accepted by a service that has reported Running with
\* AcceptStop (Execute), and by no other
ControlStopAccepted(st) == st = "Running"

\* windowsManager.Stop up to s.Control(svc.Stop): "go" when the wait loop is entered
WindowsStopEntry(root, d, st, fail) ==
    IF ~WindowsConnect(root) THEN "PermissionDenied"
    ELSE IF ~WindowsServiceExists(d) THEN "NotInstalled"
    ELSE IF ~ControlStopAccepted(st) \/ fail THEN "BackendFailure"
    ELSE "go"

WindowsStopIssue ==
    /\ backend = "windows"
    /\ pc = "idle"
    /\ \E fail \in BOOLEAN :
         LET e == WindowsStopEntry(euidRoot, descriptor, svcState, fail)
         IN  /\ fail => (euidRoot /\ descriptor.exists /\ svcState = "Running")
             /\ Enter
             /\ UNCHANGED <<process, platform, handler, header, session, stamp, logFile, descriptor, dataDir, enabled, recovery, eventSrc, installedOk, startedOk>>
             /\ ResetLocals
             /\ statusOut' = "none"
             /\ IF e = "go"
                  THEN /\ svcState' = "StopPending"
                       /\ pc' = "StopWait"
                       /\ op' = "Stop"
                       /\ result' = "none"
                       /\ faulted' = FALSE
                       /\ uninstalledOk' = FALSE
                       /\ UNCHANGED stateAtReturn
                  ELSE /\ svcState' = svcState
                       /\ Done("Stop", e, fail)

\* the wait loop leaves when the last status read is svc.Stopped
StopWaitOver(st) == st = "Stopped"

\* for status.State != svc.Stopped { Sleep; status, err = s.Query() }
WindowsStopPoll ==
    /\ backend = "windows"
    /\ pc = "StopWait"
    /\ \E qerr \in BOOLEAN :
         /\ UNCHANGED <<process, platform, handler, header, session, stamp, logFile, descriptor, dataDir, enabled, recovery, eventSrc, svcState,
                        statusOut, uninstallVars, preExists, preInstalled, installedOk,
                        startedOk>>
         /\ IF qerr
              THEN /\ Done("Stop", "BackendFailure", TRUE)
                   /\ polls' = 0
              ELSE IF StopWaitOver(svcState)
              THEN /\ Done("Stop", "ok", FALSE)
                   /\ polls' = 0
              ELSE /\ polls < MaxPolls
                   /\ polls' = polls + 1
                   /\ UNCHANGED <<pc, op, result, faulted, uninstalledOk, stateAtReturn>>

\* ------------------------------------------------------------------ Status

\* ActiveState property printed by systemctl show
ActiveState(st) ==
    CASE st = "Running" -> "active"
      [] st = "StartPending" -> "activating"
      [] st = "StopPending" -> "deactivating"
      [] OTHER -> "inactive"

\* the test on ActiveState negated
SystemdStatusTextNegated(qerr, st) ==
    IF qerr THEN "NotInstalled"
    ELSE IF ActiveState(st) # "active" THEN "Running" ELSE "Stopped"

\* systemdManager.Status: an error of systemctl show is "Service not installed.",
\* any answer is Running or Stopped by ActiveState == "active"
SystemdStatusText(qerr, st) ==
    IF qerr THEN "NotInstalled"
    ELSE IF ActiveState(st) = "active" THEN "Running" ELSE "Stopped"

\* launchdManager.Status: launchctl list <label> fails when the job is not
\* loaded; any failure is Stopped, any answer is Running
LaunchdStatusText(qerr, st) ==
    IF qerr \/ st # "Running" THEN "Stopped" ELSE "Running"

\* the switch on status.State ("Starting" and "Stopping" are the texts shown
\* for StartPending and StopPending)
WindowsStateName(st) ==
    CASE st = "Stopped" -> "Stopped"
      [] st = "StartPending" -> "StartPending"
      [] st = "StopPending" -> "StopPending"
      [] st = "Running" -> "Running"
      [] OTHER -> "Unknown"

\* windowsManager.Status: "error" when Connect or Query fails
WindowsStatusText(root, d, qerr, st) ==
    IF ~WindowsConnect(root) THEN "error"
    ELSE IF ~WindowsServiceExists(d) THEN "NotInstalled"
    ELSE IF qerr THEN "error"
    ELSE WindowsStateName(st)

StatusText(b, root, d, qerr, st) ==
    CASE b = "systemd" -> SystemdStatusText(qerr, st)
      [] b = "launchd" -> LaunchdStatusText(qerr, st)
      [] b = "windows" -> WindowsStatusText(root, d, qerr, st)

Status ==
    /\ pc = "idle"
    /\ \E qerr \in BOOLEAN :
         LET t == StatusText(backend, euidRoot, descriptor, qerr, svcState)
             r == IF t = "error"
                  THEN (IF WindowsConnect(euidRoot) THEN "BackendFailure" ELSE "PermissionDenied")
                  ELSE "ok"
         IN  \* the query can fail only when it is reached
             /\ qerr => (backend # "windows" \/ (euidRoot /\ descriptor.exists))
             /\ statusOut' = t
             /\ UNCHANGED <<process, platform, handler, header, session, stamp, logFile, descriptor, dataDir, enabled, recovery, eventSrc, svcState,
                            installedOk, startedOk>>
             /\ ResetLocals
             /\ Enter
             /\ Done("Status", r, qerr)

\* ------------------------------------------------------------------ StatusFollow, Logs

\* systemctl is-active exits 0 only for an active unit
SystemdIsActive(st) == ActiveState(st) = "active"

\* The check a StatusFollow makes before it opens the log stream: "go" when
\* it goes on. systemd: systemctl is-active (any failure is "service is not
\* running"). launchd and windows: os.Stat(m.logPath) is not IsNotExist.
StatusFollowEntry(b, st, log, fail) ==
    CASE b = "systemd" -> IF SystemdIsActive(st) /\ ~fail THEN "go" ELSE "NotRunning"
      [] b = "launchd" -> IF log THEN "go" ELSE "StreamUnavailable"
      [] b = "windows" -> IF log THEN "go" ELSE "StreamUnavailable"

\* a StatusFollow that gives up when it has no start time
StatusFollowOutcomeStrict(e, streamFail, st) ==
    IF e # "go" THEN e
    ELSE IF streamFail \/ st # "ok" THEN "BackendFailure"
    ELSE "Following"

\* How StatusFollow goes on after its check: no answer to the start-time
\* queries makes it return; a log command that does not start does
StatusFollowOutcome(e, streamFail, st) ==
    IF e # "go" THEN e
    ELSE IF streamFail THEN "BackendFailure"
    ELSE "Following"

\* StatusFollow up to the call of DisplayLiveStats(stdout, "", serviceStartTime),
\* where it stays (pc = "Following") for as long as the session lasts
StatusFollow ==
    /\ pc = "idle"
    /\ \E fail \in BOOLEAN, streamFail \in BOOLEAN, st \in Stamps(backend) :
         LET e == StatusFollowEntry(backend, svcState, logFile, fail)
             r == StatusFollowOutcome(e, streamFail, st)
         IN  /\ fail => backend = "systemd"
             /\ streamFail => e = "go"
             /\ Enter
             /\ ResetLocals
             /\ statusOut' = "none"
             /\ UNCHANGED <<process, platform, handler, isTTY, mu, lastStats, connected, producer, consumer, now,
                            tickReady, out, ghosts, logFile, descriptor, dataDir, enabled,
                            recovery, eventSrc, svcState, installedOk, startedOk>>
             /\ IF r = "Following"
                  THEN /\ pc' = "Following"
                       /\ op' = "StatusFollow"
                       /\ result' = "none"
                       /\ faulted' = FALSE
                       /\ uninstalledOk' = FALSE
                       /\ stateAtReturn' = svcState
                       /\ stamp' = st
                       /\ header' = HeaderOf(backend, descriptor)
                       /\ serviceStartTime' = ResolveStartTime(backend, st)
                       /\ startTime' = ResolveStartTime(backend, st)
                  ELSE /\ Done("StatusFollow", r, fail \/ streamFail)
                       /\ UNCHANGED <<stamp, header, serviceStartTime, startTime>>

\* What Logs runs. systemd: journalctl -f. launchd: tail -f, or an error when
\* the log file is absent. windows: Get-Content -Wait, or the newest 50
\* entries of the event log when the log file is absent.
LogsEntry(b, log) ==
    CASE b = "systemd" -> "stream"
      [] b = "launchd" -> IF log THEN "stream" ELSE "StreamUnavailable"
      [] b = "windows" -> IF log THEN "stream" ELSE "dump"

\* cmd.Run() of the dump returns when the dump is written; cmd.Run() of a
\* following command returns when the command is ended from outside
Logs ==
    /\ pc = "idle"
    /\ \E fail \in BOOLEAN :
         LET e == LogsEntry(backend, logFile)
         IN  /\ fail => e \in {"stream", "dump"}
             /\ Enter
             /\ ResetLocals
             /\ statusOut' = "none"
             /\ UNCHANGED <<process, platform, handler, header, session, stamp, logFile, descriptor, dataDir, enabled, recovery, eventSrc,
                            svcState, installedOk, startedOk>>
             /\ IF e = "stream" /\ ~fail
                  THEN /\ pc' = "Streaming"
                       /\ op' = "Logs"
                       /\ result' = "none"
                       /\ faulted' = FALSE
                       /\ uninstalledOk' = FALSE
                       /\ stateAtReturn' = svcState
                  ELSE Done("Logs", IF fail THEN "BackendFailure"
                                    ELSE IF e = "dump" THEN "ok" ELSE e, fail)

\* Ctrl-C / SIGTERM ends a following StatusFollow or Logs
Interrupt ==
    /\ pc \in {"Following", "Streaming"}
    /\ stamp' = "none"
    /\ header' = NoHeader
    /\ serviceStartTime' = ZeroTime
    /\ startTime' = ZeroTime
    /\ UNCHANGED <<process, platform, handler, isTTY, mu, lastStats, connected, producer, consumer, now,
                   tickReady, out, ghosts, logFile, descriptor, dataDir, enabled, recovery, eventSrc, svcState,
                   statusOut, polls, uninstallVars, preExists, preInstalled, installedOk,
                   startedOk>>
    /\ Done(op, "Interrupted", FALSE)

\* ------------------------------------------------------------------ Uninstall

\* the Windows Uninstall going on although OpenService failed
UninstallEntryUnopened(b, root, d) ==
    CASE b = "systemd" -> IF root THEN "go" ELSE "PermissionDenied"
      [] b = "launchd" -> "go"
      [] b = "windows" -> IF ~WindowsConnect(root) THEN "PermissionDenied" ELSE "go"

\* The checks an Uninstall makes before its stop phase: "go" when it goes on.
\* systemd: root check. launchd: none. windows: Connect, then OpenService.
UninstallEntry(b, root, d) ==
    CASE b = "systemd" -> IF root THEN "go" ELSE "PermissionDenied"
      [] b = "launchd" -> "go"
      [] b = "windows" -> IF ~WindowsConnect(root) THEN "PermissionDenied"
                          ELSE IF ~WindowsServiceExists(d) THEN "NotInstalled"
                          ELSE "go"

UninstallBegin ==
    /\ pc = "idle"
    /\ LET e == UninstallEntry(backend, euidRoot, descriptor)
       IN  /\ Enter
           /\ installedOk' = FALSE
           /\ waitI' = 0
           /\ stopAttempted' = FALSE
           /\ stopIssued' = FALSE
           /\ stopFailed' = FALSE
           /\ observedState' = "none"
           /\ statusOut' = "none"
           /\ polls' = 0
           /\ UNCHANGED <<process, platform, handler, header, session, stamp, logFile, descriptor, dataDir, enabled, recovery, eventSrc, svcState,
                          startedOk>>
           /\ IF e = "go"
                THEN /\ pc' = "UnStop"
                     /\ op' = "Uninstall"
                     /\ result' = "none"
                     /\ faulted' = FALSE
                     /\ uninstalledOk' = FALSE
                     /\ UNCHANGED stateAtReturn
                ELSE Done("Uninstall", e, FALSE)

\* the test on the queried state inverted
WindowsShouldStopInverted(qerr, st) == ~qerr /\ st = "Stopped"

\* windowsManager.Uninstall stops the service when the query answers and the
\* state it reports is not svc.Stopped
WindowsShouldStop(qerr, st) == ~qerr /\ st # "Stopped"

\* The stop phase. systemd: systemctl stop, error ignored. launchd: launchctl
\* unload, error ignored. windows: s.Query(), and s.Control(svc.Stop) with its
\* error ignored when the service is not stopped, then the wait loop.
UninstallStop ==
    /\ pc = "UnStop"
    /\ \E fail \in BOOLEAN, qerr \in BOOLEAN :
         LET issue == IF backend = "windows" THEN WindowsShouldStop(qerr, svcState) ELSE TRUE
         IN  /\ qerr => backend = "windows"
             /\ fail => issue
             /\ stopAttempted' = TRUE
             /\ stopIssued' = issue
             /\ stopFailed' = fail
             /\ observedState' = IF backend # "windows" THEN "none"
                                 ELSE IF qerr THEN "error" ELSE svcState
             /\ svcState' = IF ~issue \/ fail THEN svcState
                            ELSE IF backend = "windows"
                            THEN (IF ControlStopAccepted(svcState) THEN "StopPending" ELSE svcState)
                            ELSE "Stopped"
             /\ pc' = IF backend = "windows" /\ issue THEN "UnWait" ELSE "UnRemove"
             /\ waitI' = 0
             /\ UNCHANGED <<process, platform, handler, header, session, stamp, logFile, descriptor, dataDir, enabled, recovery, eventSrc, op, result,
                            statusOut, faulted, polls, preExists, preInstalled, installedOk,
                            startedOk, uninstalledOk, stateAtReturn>>

\* a wait that ends only when the service is stopped or the query fails
UninstallWaitUnbounded ==
    /\ backend = "windows"
    /\ pc = "UnWait"
    /\ \E qerr \in BOOLEAN :
         /\ IF ~qerr /\ svcState # "Stopped"
              THEN /\ waitI' = waitI + 1
                   /\ pc' = pc
              ELSE /\ waitI' = waitI
                   /\ pc' = "UnRemove"
         /\ UNCHANGED <<process, platform, handler, header, session, stamp, logFile, descriptor, dataDir, enabled, recovery, eventSrc, svcState, op,
                        result, statusOut, faulted, polls, stopAttempted, stopIssued, stopFailed,
                        observedState, preExists, preInstalled, installedOk, startedOk,
                        uninstalledOk, stateAtReturn>>

\* for i := 0; i < 30; i++ { Query; if err != nil || Stopped { break }; Sleep }
UninstallWait ==
    /\ backend = "windows"
    /\ pc = "UnWait"
    /\ \E qerr \in BOOLEAN :
         /\ qerr => waitI < UninstallWaitPolls
         /\ IF waitI < UninstallWaitPolls /\ ~qerr /\ svcState # "Stopped"
              THEN /\ waitI' = waitI + 1
                   /\ pc' = pc
              ELSE /\ waitI' = waitI
                   /\ pc' = "UnRemove"
         /\ UNCHANGED <<process, platform, handler, header, session, stamp, logFile, descriptor, dataDir, enabled, recovery, eventSrc, svcState, op,
                        result, statusOut, faulted, polls, stopAttempted, stopIssued, stopFailed,
                        observedState, preExists, preInstalled, installedOk, startedOk,
                        uninstalledOk, stateAtReturn>>

SystemdUninstallOrder == <<"disable", "remove", "reload">>
LaunchdUninstallOrder == <<"remove">>
WindowsUninstallOrder == <<"remove", "eventlog">>

UninstallOrder(b) ==
    CASE b = "systemd" -> SystemdUninstallOrder
      [] b = "launchd" -> LaunchdUninstallOrder
      [] b = "windows" -> WindowsUninstallOrder

\* The result of the removal phase when `fault` is the call that fails.
\* systemd: disable (error ignored), os.Remove (fatal unless the file is
\* absent), daemon-reload (fatal). launchd: os.Remove (fatal unless absent).
\* windows: s.Delete() (fatal), eventlog.Remove (error ignored).
UninstallRemoveResult(b, fault) ==
    IF fault = "remove" THEN "BackendFailure"
    ELSE IF b = "systemd" /\ fault = "reload" THEN "BackendFailure"
    ELSE "ok"

UninstallRemove ==
    /\ pc = "UnRemove"
    /\ \E fault \in Range(UninstallOrder(backend)) \cup {"none"} :
         LET removed == fault # "remove"
             r == UninstallRemoveResult(backend, fault)
         IN  \* os.Remove of an absent file is IsNotExist, which is tolerated
             /\ fault = "remove" => descriptor.exists
             /\ descriptor' = IF removed THEN NoDescriptor ELSE descriptor
             /\ enabled' = IF backend = "systemd" /\ fault # "disable" THEN FALSE ELSE enabled
             /\ recovery' = IF backend = "windows" /\ removed THEN FALSE ELSE recovery
             /\ eventSrc' = IF backend = "windows" /\ fault = "none" THEN FALSE ELSE eventSrc
             /\ waitI' = 0
             /\ UNCHANGED <<process, platform, handler, header, session, stamp, logFile, dataDir, svcState, statusOut, polls, stopAttempted,
                            stopIssued, stopFailed, observedState, preExists, preInstalled,
                            installedOk, startedOk>>
             /\ Done("Uninstall", r, fault # "none")

\* ------------------------------------------------------------------ the service process

\* ConduitService.Execute: changes <- svc.Status{State: svc.Running, ...}
SvcReportsRunning ==
    /\ backend = "windows"
    /\ svcState = "StartPending"
    /\ svcState' = "Running"
    /\ UNCHANGED <<process, platform, handler, header, session, stamp, logFile, descriptor, dataDir, enabled, recovery, eventSrc, pc, op, result,
                   statusOut, faulted, polls, uninstallVars, preExists, preInstalled,
                   installedOk, startedOk, uninstalledOk, stateAtReturn>>

\* Execute returns after the stop request, once runFunc has returned
SvcStops ==
    /\ backend = "windows"
    /\ svcState = "StopPending"
    /\ svcState' = "Stopped"
    /\ UNCHANGED <<process, platform, handler, header, session, stamp, logFile, descriptor, dataDir, enabled, recovery, eventSrc, pc, op, result,
                   statusOut, faulted, polls, uninstallVars, preExists, preInstalled,
                   installedOk, startedOk, uninstalledOk, stateAtReturn>>

\* Execute returns because runFunc returned on its own (case err := <-errChan);
\* a non-nil error is written to the log file by writeToLog, which creates
\* the file when its directory exists
SvcExits ==
    /\ backend = "windows"
    /\ svcState = "Running"
    /\ svcState' = "Stopped"
    /\ \E err \in BOOLEAN : logFile' = (logFile \/ (err /\ dataDir))
    /\ UNCHANGED <<process, platform, handler, header, session, stamp, descriptor, dataDir, enabled, recovery, eventSrc, pc, op, result,
                   statusOut, faulted, polls, uninstallVars, preExists, preInstalled,
                   installedOk, startedOk, uninstalledOk, stateAtReturn>>

\* Restart=always, RestartSec=10 of the unit file: when the relay process
\* exits, the unit is activating (auto-restart) until systemd starts it again
UnitFails ==
    /\ backend = "systemd"
    /\ svcState = "Running"
    /\ svcState' = "StartPending"
    /\ UNCHANGED <<process, platform, handler, header, session, stamp, logFile, descriptor, dataDir, enabled, recovery, eventSrc, pc, op,
                   result, statusOut, faulted, polls, uninstallVars, preExists, preInstalled,
                   installedOk, startedOk, uninstalledOk, stateAtReturn>>

UnitRestarts ==
    /\ backend = "systemd"
    /\ svcState = "StartPending"
    /\ svcState' = "Running"
    /\ UNCHANGED <<process, platform, handler, header, session, stamp, logFile, descriptor, dataDir, enabled, recovery, eventSrc, pc, op,
                   result, statusOut, faulted, polls, uninstallVars, preExists, preInstalled,
                   installedOk, startedOk, uninstalledOk, stateAtReturn>>

\* ------------------------------------------------------------------ the telemetry session

\* the service manager while StatusFollow follows a service installed and
\* started, on systemd and on launchd
FollowingManager ==
    /\ NoHandler
    /\ backend \in {"systemd", "launchd"}
    /\ euidRoot = TRUE
    /\ descriptor = RenderDescriptor(backend,
                        [MaxClients |-> 50, BandwidthTenths |-> 25, PsiphonConfigPath |-> "",
                         Verbose |-> FALSE])
    /\ dataDir = TRUE
    /\ enabled = (backend = "systemd")
    /\ recovery = FALSE
    /\ eventSrc = FALSE
    /\ svcState = "Running"
    /\ pc = "Following"
    /\ op = "StatusFollow"
    /\ result = "none"
    /\ statusOut = "none"
    /\ faulted = FALSE
    /\ polls = 0
    /\ waitI = 0
    /\ stopAttempted = FALSE
    /\ stopIssued = FALSE
    /\ stopFailed = FALSE
    /\ observedState = "none"
    /\ preExists = TRUE
    /\ preInstalled = TRUE
    /\ installedOk = TRUE
    /\ startedOk = TRUE
    /\ uninstalledOk = FALSE
    /\ stateAtReturn = "Running"
    /\ logFile = (backend = "launchd")
    /\ header = HeaderOf(backend, descriptor)
    /\ NoProcess

\* DisplayLiveStats(r, "", serviceStartTime) as StatusFollow calls it
TelemetryInit ==
    /\ FollowingManager
    /\ serviceStartTime \in ServiceStartTimes(backend)
    /\ stamp = IF serviceStartTime.zero THEN "unparseable" ELSE "ok"
    /\ isTTY \in BOOLEAN
    /\ ppc = "scan"
    /\ cpc = "tick"
    /\ SessionStart

\* time passes; the ticker (one second) puts a tick in its channel, which
\* holds one
Clock ==
    /\ now < MaxTime
    /\ now' = now + 1
    /\ tickReady' = TRUE
    /\ UNCHANGED <<process, manager, handler, serviceStartTime, isTTY, mu, shared, producer, consumer, out,
                   ghosts>>

\* scanner.Scan(): blocks until the stream has a line, FALSE at its end
ReaderScan ==
    /\ ppc = "scan"
    /\ \/ /\ nread < MaxLines
          /\ \E l \in LogLines :
                /\ line' = l
                /\ lastTagged' = IF l.head = StatsTag THEN l ELSE lastTagged
          /\ nread' = nread + 1
          /\ ppc' = "lock"
       \/ /\ ppc' = "done"
          /\ UNCHANGED <<line, nread, lastTagged>>
    /\ UNCHANGED <<process, manager, handler, serviceStartTime, isTTY, mu, shared, consumer, now, tickReady,
                   out, firstSample, firstParsed, phraseSeen, shownConnected, prevUptime,
                   relayUptime>>

\* mu.Lock()
ReaderLock ==
    /\ ppc = "lock"
    /\ MuCanLock(mu)
    /\ mu' = "producer"
    /\ ppc' = "connected"
    /\ UNCHANGED <<process, manager, handler, serviceStartTime, isTTY, shared, line, nread, consumer, now,
                   tickReady, out, ghosts>>

\* the flag following the last line instead of sticking
ReaderConnectedReset ==
    /\ ppc = "connected"
    /\ connected' = IsConnectedLine(line)
    /\ phraseSeen' = (phraseSeen \/ IsConnectedLine(line))
    /\ ppc' = "stats"
    /\ UNCHANGED <<process, manager, handler, serviceStartTime, isTTY, mu, lastStats, startTime, line, nread,
                   consumer, now, tickReady, out, firstSample, firstParsed, shownConnected,
                   prevUptime, lastTagged, relayUptime>>

\* if IsConnectedLine(line) { connected = true }
ReaderConnected ==
    /\ ppc = "connected"
    /\ connected' = (connected \/ IsConnectedLine(line))
    /\ phraseSeen' = (phraseSeen \/ IsConnectedLine(line))
    /\ ppc' = "stats"
    /\ UNCHANGED <<process, manager, handler, serviceStartTime, isTTY, mu, lastStats, startTime, line, nread,
                   consumer, now, tickReady, out, firstSample, firstParsed, shownConnected,
                   prevUptime, lastTagged, relayUptime>>

\* the first sample kept, the later ones dropped
ReaderStatsKeepFirst ==
    /\ ppc = "stats"
    /\ LET stats == ParseStatsLine(line)
       IN  IF stats.nil
             THEN /\ ppc' = "unlock"
                  /\ UNCHANGED lastStats
             ELSE /\ ppc' = "startTime"
                  /\ lastStats' = IF lastStats.nil THEN [stats EXCEPT !.Connected = connected]
                                   ELSE lastStats
    /\ UNCHANGED <<process, manager, handler, serviceStartTime, isTTY, mu, startTime, connected, line, nread,
                   consumer, now, tickReady, out, ghosts>>

\* if stats := ParseStatsLine(line); stats != nil { stats.Connected = connected; lastStats = stats
ReaderStats ==
    /\ ppc = "stats"
    /\ LET stats == ParseStatsLine(line)
       IN  IF stats.nil
             THEN /\ ppc' = "unlock"
                  /\ UNCHANGED lastStats
             ELSE /\ ppc' = "startTime"
                  /\ lastStats' = [stats EXCEPT !.Connected = connected]
    /\ UNCHANGED <<process, manager, handler, serviceStartTime, isTTY, mu, startTime, connected, line, nread,
                   consumer, now, tickReady, out, ghosts>>

\* if startTime.IsZero() { if uptime, err := parseUptime(stats.Uptime); err == nil {
\*     startTime = time.Now().Add(-uptime) } }
ReaderStartTime ==
    /\ ppc = "startTime"
    /\ LET up == parseUptime(lastStats.Uptime)
           this == [seen |-> TRUE, err |-> up.err, at |-> now, d |-> up.d]
       IN  /\ startTime' = IF IsZero(startTime) /\ ~up.err
                             THEN DeriveStartTime(now, up.d) ELSE startTime
           /\ firstSample' = IF firstSample.seen THEN firstSample ELSE this
           /\ firstParsed' = IF firstParsed.seen \/ up.err THEN firstParsed ELSE this
    /\ ppc' = "unlock"
    /\ UNCHANGED <<process, manager, handler, serviceStartTime, isTTY, mu, lastStats, connected, line, nread,
                   consumer, now, tickReady, out, phraseSeen, shownConnected, prevUptime,
                   lastTagged, relayUptime>>

\* mu.Unlock(), and back to scanner.Scan()
ReaderUnlock ==
    /\ ppc = "unlock"
    /\ mu' = MuAfterUnlock(mu)
    /\ ppc' = "scan"
    /\ line' = OtherLine
    /\ UNCHANGED <<process, manager, handler, serviceStartTime, isTTY, shared, nread, consumer, now,
                   tickReady, out, ghosts>>

\* for range ticker.C
DisplayTick ==
    /\ cpc = "tick"
    /\ tickReady
    /\ tickReady' = FALSE
    /\ cpc' = "lock"
    /\ out' = NoOutput
    /\ UNCHANGED <<process, manager, handler, serviceStartTime, isTTY, mu, shared, producer, status, clients,
                   upload, download, uptime, now, ghosts>>

\* mu.Lock()
DisplayLock ==
    /\ cpc = "lock"
    /\ MuCanLock(mu)
    /\ mu' = "consumer"
    /\ cpc' = "status"
    /\ UNCHANGED <<process, manager, handler, serviceStartTime, isTTY, shared, producer, status, clients,
                   upload, download, uptime, now, tickReady, out, ghosts>>

\* status := "Waiting"; if connected { status = "Connected" }, and the defaults
DisplayStatus ==
    /\ cpc = "status"
    /\ status' = IF connected THEN "Connected" ELSE "Waiting"
    /\ clients' = PlaceholderClients
    /\ upload' = PlaceholderBytes
    /\ download' = PlaceholderBytes
    /\ uptime' = PlaceholderUptime
    /\ cpc' = IF lastStats.nil THEN "uptime" ELSE "clients"
    /\ UNCHANGED <<process, manager, handler, serviceStartTime, isTTY, mu, shared, producer, now, tickReady,
                   out, ghosts>>

\* clients = lastStats.Clients
DisplayClients ==
    /\ cpc = "clients"
    /\ clients' = lastStats.Clients
    /\ cpc' = "upload"
    /\ UNCHANGED <<process, manager, handler, serviceStartTime, isTTY, mu, shared, producer, status, upload,
                   download, uptime, now, tickReady, out, ghosts>>

\* upload = lastStats.Upload
DisplayUpload ==
    /\ cpc = "upload"
    /\ upload' = lastStats.Upload
    /\ cpc' = "download"
    /\ UNCHANGED <<process, manager, handler, serviceStartTime, isTTY, mu, shared, producer, status, clients,
                   download, uptime, now, tickReady, out, ghosts>>

\* download = lastStats.Download
DisplayDownload ==
    /\ cpc = "download"
    /\ download' = lastStats.Download
    /\ cpc' = "uptime"
    /\ UNCHANGED <<process, manager, handler, serviceStartTime, isTTY, mu, shared, producer, status, clients,
                   upload, uptime, now, tickReady, out, ghosts>>

\* the uptime taken from the latest sample instead of the clock
DisplayUptimeFromStats ==
    /\ cpc = "uptime"
    /\ uptime' = IF lastStats.nil THEN uptime ELSE lastStats.Uptime
    /\ cpc' = "unlock"
    /\ UNCHANGED <<process, manager, handler, serviceStartTime, isTTY, mu, shared, producer, status, clients,
                   upload, download, now, tickReady, out, ghosts>>

\* if !startTime.IsZero() { uptime = formatDuration(time.Since(startTime)) }
DisplayUptime ==
    /\ cpc = "uptime"
    /\ uptime' = IF IsZero(startTime) THEN uptime ELSE formatDuration(now - startTime.at)
    /\ cpc' = "unlock"
    /\ UNCHANGED <<process, manager, handler, serviceStartTime, isTTY, mu, shared, producer, status, clients,
                   upload, download, now, tickReady, out, ghosts>>

\* mu.Unlock()
DisplayUnlock ==
    /\ cpc = "unlock"
    /\ mu' = MuAfterUnlock(mu)
    /\ cpc' = "print"
    /\ UNCHANGED <<process, manager, handler, serviceStartTime, isTTY, shared, producer, status, clients,
                   upload, download, uptime, now, tickReady, out, ghosts>>

\* the five lines of a terminal, or the one line of a pipe (which has no status)
DisplayPrint ==
    /\ cpc = "print"
    /\ out' = Render(isTTY, status, clients, upload, download, uptime)
    /\ shownConnected' = (shownConnected \/ (isTTY /\ status = "Connected"))
    /\ prevUptime' = IF isTTY THEN prevUptime ELSE uptime
    /\ status' = ""
    /\ clients' = ""
    /\ upload' = NoField
    /\ download' = NoField
    /\ uptime' = NoField
    /\ cpc' = "tick"
    /\ UNCHANGED <<process, manager, handler, serviceStartTime, isTTY, mu, shared, producer, now, tickReady,
                   firstSample, firstParsed, phraseSeen, lastTagged, relayUptime>>

\* ------------------------------------------------------------------ the Windows service handler

\* the supervisor has started the process of an installed service, which
\* calls svc.Run and with it Execute
ExecuteInit ==
    /\ backend = "windows"
    /\ euidRoot = TRUE
    /\ descriptor = RenderDescriptor("windows",
                        [MaxClients |-> 50, BandwidthTenths |-> 25, PsiphonConfigPath |-> "",
                         Verbose |-> FALSE])
    /\ dataDir = TRUE
    /\ enabled = FALSE
    /\ recovery \in BOOLEAN
    /\ eventSrc \in BOOLEAN
    /\ svcState = "StartPending"
    /\ pc = "idle"
    /\ op = "Start"
    /\ result = "ok"
    /\ statusOut = "none"
    /\ faulted = FALSE
    /\ polls = 0
    /\ waitI = 0
    /\ stopAttempted = FALSE
    /\ stopIssued = FALSE
    /\ stopFailed = FALSE
    /\ observedState = "none"
    /\ preExists = TRUE
    /\ preInstalled = TRUE
    /\ installedOk = TRUE
    /\ startedOk = TRUE
    /\ uninstalledOk = FALSE
    /\ stateAtReturn = "StartPending"
    /\ logFile \in BOOLEAN
    /\ stamp = "none"
    /\ header = NoHeader
    /\ NoSession
    /\ NoProcess
    /\ xpc = "start"
    /\ reports = << >>
    /\ rpc = "none"
    /\ relayErr = "none"
    /\ errChan = "empty"
    /\ ctxDone = FALSE
    /\ request = "none"
    /\ nreq = 0
    /\ exitCode = 0 - 1
    /\ via = "none"
    /\ ownEnd = FALSE
    /\ endedFirst = FALSE
    /\ errLogged = FALSE

ControlRequests == {"Interrogate", "Stop", "Shutdown", "ParamChange"}

\* changes <- svc.Status{State: svc.StartPending}
ExecStartPending ==
    /\ xpc = "start"
    /\ reports' = Append(reports, "StartPending")
    /\ xpc' = "spawn"
    /\ UNCHANGED <<process, manager, session, rpc, relayErr, errChan, ctxDone, request, nreq, exitCode,
                   via, ownEnd, endedFirst, errLogged>>

\* ctx, cancel := context.WithCancel(...); errChan := make(chan error, 1);
\* go func() { errChan <- s.runFunc(ctx) }()
ExecSpawn ==
    /\ xpc = "spawn"
    /\ rpc' = "running"
    /\ xpc' = "running"
    /\ UNCHANGED <<process, manager, session, reports, relayErr, errChan, ctxDone, request, nreq,
                   exitCode, via, ownEnd, endedFirst, errLogged>>

\* changes <- svc.Status{State: svc.Running, Accepts: cmdsAccepted}
ExecRunning ==
    /\ xpc = "running"
    /\ reports' = Append(reports, "Running")
    /\ xpc' = "select"
    /\ UNCHANGED <<process, manager, session, rpc, relayErr, errChan, ctxDone, request, nreq, exitCode,
                   via, ownEnd, endedFirst, errLogged>>

\* s.runFunc(ctx) returns, on its own or after the cancellation, nil or an error
RelayReturns ==
    /\ rpc = "running"
    /\ \E e \in {"nil", "err"} : relayErr' = e
    /\ ownEnd' = ~ctxDone
    /\ endedFirst' = (via # "request")
    /\ rpc' = "send"
    /\ UNCHANGED <<process, manager, session, xpc, reports, errChan, ctxDone, request, nreq, exitCode,
                   via, errLogged>>

\* errChan <- ...: the send waits while the buffer of one is full
RelaySend ==
    /\ rpc = "send"
    /\ errChan = "empty"
    /\ errChan' = relayErr
    /\ rpc' = "done"
    /\ UNCHANGED <<process, manager, session, xpc, reports, relayErr, ctxDone, request, nreq, exitCode,
                   via, ownEnd, endedFirst, errLogged>>

\* the supervisor sends a control request on r; Stop and Shutdown only to a
\* service that has reported Running with cmdsAccepted
SupervisorRequest ==
    /\ xpc \notin {"none", "returned"}
    /\ request = "none"
    /\ nreq < MaxRequests
    /\ \E c \in ControlRequests :
          /\ c \in {"Stop", "Shutdown"} => (Len(reports) >= 2)
          /\ request' = c
    /\ nreq' = nreq + 1
    /\ UNCHANGED <<process, manager, session, xpc, reports, rpc, relayErr, errChan, ctxDone, exitCode,
                   via, ownEnd, endedFirst, errLogged>>

\* the relay's own end answered with a report of StopPending
ExecSelectErrStopPending ==
    /\ xpc = "select"
    /\ errChan # "empty"
    /\ errChan' = "empty"
    /\ reports' = Append(reports, "StopPending")
    /\ errLogged' = (errLogged \/ errChan = "err")
    /\ exitCode' = IF errChan = "err" THEN 1 ELSE 0
    /\ via' = "errChan"
    /\ ctxDone' = TRUE
    /\ xpc' = "returned"
    /\ UNCHANGED <<process, manager, session, rpc, relayErr, request, nreq, ownEnd, endedFirst>>

\* case err := <-errChan: return false, 1 after writeToLog if err != nil,
\* else return false, 0; the deferred cancel() runs
ExecSelectErr ==
    /\ xpc = "select"
    /\ errChan # "empty"
    /\ errChan' = "empty"
    /\ errLogged' = (errLogged \/ errChan = "err")
    /\ exitCode' = IF errChan = "err" THEN 1 ELSE 0
    /\ via' = "errChan"
    /\ ctxDone' = TRUE
    /\ xpc' = "returned"
    /\ UNCHANGED <<process, manager, session, reports, rpc, relayErr, request, nreq, ownEnd, endedFirst>>

\* case c := <-r. Interrogate: changes <- c.CurrentStatus, the status the
\* supervisor holds, which is the last one reported. Stop, Shutdown:
\* changes <- svc.Status{State: svc.StopPending}. Any other: writeToLog.
ExecSelectRequest ==
    /\ xpc = "select"
    /\ request # "none"
    /\ request' = "none"
    /\ IF request = "Interrogate"
         THEN /\ reports' = Append(reports, reports[Len(reports)])
              /\ UNCHANGED <<xpc, via>>
         ELSE IF request \in {"Stop", "Shutdown"}
         THEN /\ reports' = Append(reports, "StopPending")
              /\ xpc' = "cancel"
              /\ via' = "request"
         ELSE UNCHANGED <<reports, xpc, via>>
    /\ UNCHANGED <<process, manager, session, rpc, relayErr, errChan, ctxDone, nreq, exitCode, ownEnd, endedFirst,
                   errLogged>>

\* the stop path going on to wait without cancelling
ExecCancelSkipped ==
    /\ xpc = "cancel"
    /\ xpc' = "wait"
    /\ UNCHANGED <<process, manager, session, reports, rpc, relayErr, errChan, ctxDone, request, nreq,
                   exitCode, via, ownEnd, endedFirst, errLogged>>

\* cancel()
ExecCancel ==
    /\ xpc = "cancel"
    /\ ctxDone' = TRUE
    /\ xpc' = "wait"
    /\ UNCHANGED <<process, manager, session, reports, rpc, relayErr, errChan, request, nreq, exitCode,
                   via, ownEnd, endedFirst, errLogged>>

\* a return that does not wait for the relay function
ExecWaitNoWait ==
    /\ xpc = "wait"
    /\ errChan' = "empty"
    /\ exitCode' = 0
    /\ xpc' = "returned"
    /\ UNCHANGED <<process, manager, session, reports, rpc, relayErr, ctxDone, request, nreq, via,
                   ownEnd, endedFirst, errLogged>>

\* <-errChan; return false, 0
ExecWait ==
    /\ xpc = "wait"
    /\ errChan # "empty"
    /\ errChan' = "empty"
    /\ exitCode' = 0
    /\ xpc' = "returned"
    /\ UNCHANGED <<process, manager, session, reports, rpc, relayErr, ctxDone, request, nreq, via,
                   ownEnd, endedFirst, errLogged>>

ExecuteNext ==
    \/ ExecStartPending
    \/ ExecSpawn
    \/ ExecRunning
    \/ RelayReturns
    \/ RelaySend
    \/ SupervisorRequest
    \/ ExecSelectErr
    \/ ExecSelectRequest
    \/ ExecCancel
    \/ ExecWait

SpecExecute == ExecuteInit /\ [][ExecuteNext]_vars

ExecStep ==
    \/ ExecStartPending
    \/ ExecSpawn
    \/ ExecRunning
    \/ ExecSelectErr
    \/ ExecSelectRequest
    \/ ExecCancel
    \/ ExecWait

\* the relay function honours the cancellation of its context
RelayReturnsCancelled == ctxDone /\ RelayReturns

\* Execute as the runtime schedules it: both goroutines run whenever they
\* can, the supervisor receives every status sent on changes, and the relay
\* function returns once its context is cancelled
SpecExecuteFair ==
    /\ ExecuteInit
    /\ [][ExecuteNext]_vars
    /\ WF_vars(ExecStep)
    /\ WF_vars(RelaySend)
    /\ WF_vars(RelayReturnsCancelled)

\* ------------------------------------------------------------------ the start command

\* runStart has made ctx and sigChan, started the goroutine that waits on
\* sigChan, printed the banner and called service.Run(ctx)
StartInit ==
    /\ ManagerInit
    /\ NoSession
    /\ NoCollector
    /\ spc = "run"
    /\ sigChan = 0
    /\ sigpc = "wait"
    /\ nsig = 0
    /\ startCtx = FALSE
    /\ runErr = "none"
    /\ startResult = "none"
    /\ startOut = << >>
    /\ failedAlone = FALSE

\* the operator sends SIGINT or SIGTERM: signal.Notify puts it in sigChan
\* when there is room and drops it when there is none
StartSignal ==
    /\ UNCHANGED <<manager, session, handler, collector, caller, spc, sigpc, startCtx, runErr,
                   startResult, startOut, failedAlone>>
    /\ spc # "returned"
    /\ nsig < MaxSignals
    /\ nsig' = nsig + 1
    /\ sigChan' = IF sigChan < 1 THEN sigChan + 1 ELSE sigChan

\* the goroutine takes the signal, prints, and calls cancel
StartSigHandle ==
    /\ UNCHANGED <<manager, session, handler, collector, caller, spc, nsig, runErr,
                   startResult, failedAlone>>
    /\ spc # "returned"
    /\ sigpc = "wait"
    /\ sigChan > 0
    /\ sigChan' = sigChan - 1
    /\ startOut' = Append(startOut, "Shutting down...")
    /\ startCtx' = TRUE
    /\ sigpc' = "done"

\* service.Run returns, with an error or without, before the cancellation or
\* after it
StartRelayReturns ==
    /\ UNCHANGED <<manager, session, handler, collector, caller, sigChan, sigpc, nsig,
                   startCtx, startResult, startOut>>
    /\ spc = "run"
    /\ \E e \in {"nil", "err"} : runErr' = e
    /\ failedAlone' = ~startCtx
    /\ spc' = "check"

\* err != nil && ctx.Err() == nil, and the return that follows; ctx is that of
\* the relay, which the deferred cancel leaves as the goroutine left it
StartCheck ==
    /\ UNCHANGED <<manager, session, handler, collector, caller, sigChan, sigpc, nsig,
                   startCtx, runErr, failedAlone>>
    /\ spc = "check"
    /\ IF runErr = "err" /\ ~startCtx
       THEN /\ startResult' = "error"
            /\ UNCHANGED startOut
       ELSE /\ startResult' = "nil"
            /\ startOut' = Append(startOut, "Stopped.")
    /\ spc' = "returned"

StartNext ==
    \/ StartSignal
    \/ StartSigHandle
    \/ StartRelayReturns
    \/ StartCheck

SpecStart == StartInit /\ [][StartNext]_vars

\* ------------------------------------------------------------------ the geo collector

Collecting == {"capture", "lookup", "lock", "publish"}

\* NewCollector has made the collector; Start has not been called
GeoInit ==
    /\ ManagerInit
    /\ backend = "systemd"
    /\ euidRoot = TRUE
    /\ NoSession
    /\ NoForeground
    /\ NoCaller
    /\ gpc = "start"
    /\ gctx = FALSE
    /\ gtick = FALSE
    /\ ncollect = 0
    /\ ips = [err |-> FALSE, list |-> << >>]
    /\ found = NilSlice
    /\ results = NilSlice
    /\ gmu = "free"

\* Start: CheckDependencies, and the goroutine run, which begins with a
\* collection
GeoStart ==
    /\ UNCHANGED <<manager, session, handler, foreground, caller, gctx, gtick, ips, found,
                   results, gmu>>
    /\ gpc = "start"
    /\ \E ok \in BOOLEAN :
        /\ gpc' = IF ok THEN "capture" ELSE "failed"
        /\ ncollect' = IF ok THEN 1 ELSE 0

\* collect: CaptureIPs returns; an error or no address ends the collection
CollectCapture ==
    /\ UNCHANGED <<manager, session, handler, foreground, caller, gctx, gtick, ncollect, found,
                   results, gmu>>
    /\ gpc = "capture"
    /\ \E c \in Captures :
        /\ ips' = c
        /\ gpc' = IF c.err \/ Len(c.list) = 0 THEN "select" ELSE "lookup"

\* collect: LookupIPs returns, never with an error
CollectLookup ==
    /\ UNCHANGED <<manager, session, handler, foreground, caller, gctx, gtick, ncollect,
                   results, gmu>>
    /\ gpc = "lookup"
    /\ \E f \in LookupIPs(ips.list) : found' = Slice(f)
    /\ ips' = [err |-> FALSE, list |-> << >>]
    /\ gpc' = "lock"

\* a Lock that does not wait for the readers
CollectLockNoWait ==
    /\ UNCHANGED <<manager, session, handler, foreground, caller, gctx, gtick, ncollect, ips,
                   found, results>>
    /\ gpc = "lock"
    /\ gmu' = "writer"
    /\ gpc' = "publish"

\* collect: c.mu.Lock()
CollectLock ==
    /\ UNCHANGED <<manager, session, handler, foreground, caller, gctx, gtick, ncollect, ips,
                   found, results>>
    /\ gpc = "lock"
    /\ gmu = "free"
    /\ gmu' = "writer"
    /\ gpc' = "publish"

\* collect: c.results = results, c.mu.Unlock(), and the return to the loop
CollectPublish ==
    /\ UNCHANGED <<manager, session, handler, foreground, caller, gctx, gtick, ncollect, ips,
                   found>>
    /\ gpc = "publish"
    /\ results' = found
    /\ gmu' = "free"
    /\ gpc' = "select"

\* a case <-ctx.Done() that leaves the select and not the loop
GeoSelectDoneLoops ==
    /\ UNCHANGED <<manager, session, handler, foreground, caller, collector>>
    /\ gpc = "select"
    /\ gctx

\* run: the select takes case <-ctx.Done()
GeoSelectDone ==
    /\ UNCHANGED <<manager, session, handler, foreground, caller, gctx, gtick, ncollect, ips,
                   found, results, gmu>>
    /\ gpc = "select"
    /\ gctx
    /\ gpc' = "exited"

\* run: the select takes case <-ticker.C
GeoSelectTick ==
    /\ UNCHANGED <<manager, session, handler, foreground, caller, gctx, results, gmu>>
    /\ gpc = "select"
    /\ gtick
    /\ gtick' = FALSE
    /\ ips' = [err |-> FALSE, list |-> << >>]
    /\ found' = NilSlice
    /\ ncollect' = ncollect + 1
    /\ gpc' = "capture"

\* the ticker, which run makes after the first collection, puts a tick in
\* ticker.C when it is empty
GeoTick ==
    /\ UNCHANGED <<manager, session, handler, foreground, caller, gpc, gctx, ncollect, ips,
                   found, results, gmu>>
    /\ gpc = "select" \/ (gpc \in Collecting /\ ncollect > 1)
    /\ ncollect < MaxCollections
    /\ ~gtick
    /\ gtick' = TRUE

\* the owner of the context cancels it
GeoCancel ==
    /\ UNCHANGED <<manager, session, handler, foreground, caller, gpc, gtick, ncollect, ips,
                   found, results, gmu>>
    /\ gpc # "exited"
    /\ ~gctx
    /\ gctx' = TRUE

\* GetResults: c.mu.RLock(), which admits no reader while a writer holds c.mu
\* or waits for it
GetRLock ==
    /\ UNCHANGED <<manager, session, handler, foreground, gpc, gctx, gtick, ncollect, ips,
                   found, results>>
    /\ qpc \in {"idle", "returned"}
    /\ nget < MaxGets
    /\ gmu # "writer"
    /\ gpc # "lock"
    /\ gmu' = "reader"
    /\ nget' = nget + 1
    /\ atRLock' = results
    /\ rangeOver' = NilSlice
    /\ getOut' = NilSlice
    /\ qpc' = "make"

\* GetResults: the nil test, return []Result{} or make([]Result, len(c.results))
GetMake ==
    /\ UNCHANGED <<manager, session, handler, foreground, collector, nget, rangeOver, atRLock>>
    /\ qpc = "make"
    /\ IF results.nil
       THEN /\ getOut' = Slice(<< >>)
            /\ qpc' = "unlock"
       ELSE /\ getOut' = Slice([i \in 1..Len(results.items) |-> ZeroResult])
            /\ qpc' = "range"

\* GetResults: the range clause evaluates c.results once, and the loop copies
\* its items into out; an index past the end of out panics
GetRange ==
    /\ UNCHANGED <<manager, session, handler, foreground, collector, nget, atRLock>>
    /\ qpc = "range"
    /\ rangeOver' = results
    /\ IF Len(results.items) > Len(getOut.items)
       THEN /\ UNCHANGED getOut
            /\ qpc' = "panic"
       ELSE /\ getOut' = Slice([i \in 1..Len(getOut.items) |->
                                   IF i <= Len(results.items) THEN results.items[i]
                                   ELSE getOut.items[i]])
            /\ qpc' = "unlock"

\* GetResults: the deferred c.mu.RUnlock(), and the return of out
GetRUnlock ==
    /\ UNCHANGED <<manager, session, handler, foreground, gpc, gctx, gtick, ncollect, ips,
                   found, results, nget, getOut, atRLock>>
    /\ qpc = "unlock"
    /\ rangeOver' = NilSlice
    /\ gmu' = "free"
    /\ qpc' = "returned"

\* the steps of collect and of GetResults
CollectStep == GeoStart \/ CollectCapture \/ CollectLookup \/ CollectLock \/ CollectPublish
GetStep == GetMake \/ GetRange \/ GetRUnlock

GeoNext ==
    \/ GeoStart
    \/ CollectCapture
    \/ CollectLookup
    \/ CollectLock
    \/ CollectPublish
    \/ GeoSelectDone
    \/ GeoSelectTick
    \/ GeoTick
    \/ GeoCancel
    \/ GetRLock
    \/ GetMake
    \/ GetRange
    \/ GetRUnlock

SpecGeo == GeoInit /\ [][GeoNext]_vars

\* the calls of collect and of GetResults return, and a select with more than
\* one case ready takes each of them with equal chance
SpecGeoFair ==
    /\ GeoInit
    /\ [][GeoNext]_vars
    /\ WF_vars(CollectStep)
    /\ WF_vars(GetStep)
    /\ SF_vars(GeoSelectDone)

\* ------------------------------------------------------------------ specification

Next ==
    \/ SystemdInstall
    \/ LaunchdInstall
    \/ WindowsInstall
    \/ SystemdStart
    \/ LaunchdStart
    \/ WindowsStart
    \/ SystemdStop
    \/ LaunchdStop
    \/ WindowsStopIssue
    \/ WindowsStopPoll
    \/ Status
    \/ StatusFollow
    \/ Logs
    \/ Interrupt
    \/ UninstallBegin
    \/ UninstallStop
    \/ UninstallWait
    \/ UninstallRemove
    \/ SvcReportsRunning
    \/ SvcStops
    \/ SvcExits
    \/ UnitFails
    \/ UnitRestarts

Spec == Init /\ [][Next]_vars

TelemetryNext ==
    \/ Clock
    \/ ReaderScan
    \/ ReaderLock
    \/ ReaderConnected
    \/ ReaderStats
    \/ ReaderStartTime
    \/ ReaderUnlock
    \/ DisplayTick
    \/ DisplayLock
    \/ DisplayStatus
    \/ DisplayClients
    \/ DisplayUpload
    \/ DisplayDownload
    \/ DisplayUptime
    \/ DisplayUnlock
    \/ DisplayPrint

SpecTelemetry == TelemetryInit /\ [][TelemetryNext]_vars

\* a session on systemd with no start time passed in, when the reading
\* goroutine has read its first line: a stats line whose uptime field the
\* relay formatted from a duration, or one that is no duration
UptimeInit ==
    /\ FollowingManager
    /\ backend = "systemd"
    /\ stamp = "unparseable"
    /\ serviceStartTime = ResolveStartTime(backend, stamp)
    /\ isTTY = FALSE
    /\ mu = "free"
    /\ lastStats = NilStats
    /\ startTime = serviceStartTime
    /\ connected = FALSE
    /\ relayUptime \in (0 - 1)..MaxDuration
    /\ line \in IF relayUptime >= 0 THEN {UptimeLine(formatDuration(relayUptime))}
                ELSE {UptimeLine(up) : up \in MalformedUptimes}
    /\ lastTagged = line
    /\ nread = 1
    /\ ppc = "lock"
    /\ cpc = "tick"
    /\ status = ""
    /\ clients = ""
    /\ upload = NoField
    /\ download = NoField
    /\ uptime = NoField
    /\ now = 0
    /\ tickReady = FALSE
    /\ out = NoOutput
    /\ firstSample = [seen |-> FALSE, err |-> FALSE, at |-> 0, d |-> 0]
    /\ firstParsed = [seen |-> FALSE, err |-> FALSE, at |-> 0, d |-> 0]
    /\ phraseSeen = FALSE
    /\ shownConnected = FALSE
    /\ prevUptime = NoField

\* the reading goroutine processes that line while time passes
UptimeNext ==
    Clock \/ ReaderLock \/ ReaderConnected \/ ReaderStats \/ ReaderStartTime \/ ReaderUnlock

SpecUptime == UptimeInit /\ [][UptimeNext]_vars

\* the ticker goes on firing after the seconds the clock counts
LateTick ==
    /\ now = MaxTime
    /\ ~tickReady
    /\ tickReady' = TRUE
    /\ UNCHANGED <<process, manager, handler, serviceStartTime, isTTY, mu, shared, producer, consumer, now,
                   out, ghosts>>

ReaderStep ==
    ReaderScan \/ ReaderLock \/ ReaderConnected \/ ReaderStats \/ ReaderStartTime \/ ReaderUnlock

DisplayStep ==
    \/ DisplayTick
    \/ DisplayLock
    \/ DisplayStatus
    \/ DisplayClients
    \/ DisplayUpload
    \/ DisplayDownload
    \/ DisplayUptime
    \/ DisplayUnlock
    \/ DisplayPrint

TelemetryFairNext == Clock \/ LateTick \/ ReaderStep \/ DisplayStep

\* the session as the runtime schedules it: the ticker fires every second,
\* and each of the two goroutines runs whenever it can
SpecTelemetryFair ==
    /\ TelemetryInit
    /\ [][TelemetryFairNext]_vars
    /\ WF_vars(Clock \/ LateTick)
    /\ WF_vars(ReaderStep)
    /\ WF_vars(DisplayStep)

\* ------------------------------------------------------------------ claims

\* C1: after a successful Install, a second Install with no Uninstall in
\* between does not succeed, and fails with AlreadyInstalled unless one of
\* its calls failed first.
C1_SecondInstallRejected ==
    (op = "Install" /\ pc = "idle" /\ preInstalled)
        => (result # "ok" /\ (~faulted => result = "AlreadyInstalled"))

\* C2: an Install made after a successful Install, with no Uninstall in
\* between, leaves the descriptor as it was.
C2_DescriptorImmutable ==
    [][(pc = "idle" /\ op' = "Install" /\ installedOk) => descriptor' = descriptor]_vars

\* C3: a Stop that waits for the service to stop gives up after a bounded
\* number of polls: it is never still waiting when it has polled MaxPolls times.
C3_BoundedWait ==
    pc = "StopWait" => polls < MaxPolls

\* C4: for an installed service, Start returns ok only with the service
\* Running and Stop returns ok only with the service Stopped.
C4_OkMeansSettled ==
    (pc = "idle" /\ result = "ok" /\ preInstalled)
        => /\ op = "Start" => stateAtReturn = "Running"
           /\ op = "Stop" => stateAtReturn = "Stopped"

\* C5: after a successful Install (of a service that was not running), every
\* Status whose query is answered reports Stopped until a Start has returned ok.
C5_StoppedUntilStart ==
    (op = "Status" /\ pc = "idle" /\ installedOk /\ ~startedOk /\ ~faulted)
        => statusOut = "Stopped"

C5_Witness ==
    /\ op = "Status" /\ pc = "idle" /\ installedOk /\ ~startedOk /\ ~faulted
    /\ preInstalled
    /\ statusOut = "Stopped"

\* C6: the Status that follows an Install and a successful Uninstall reports
\* NotInstalled (when its query is answered).
C6_NotInstalledAfterUninstall ==
    (op = "Status" /\ pc = "idle" /\ uninstalledOk /\ ~faulted)
        => statusOut = "NotInstalled"

\* C7: an Install by a caller without privilege returns PermissionDenied and
\* has created no directory and no descriptor.
C7_PrivilegeFirst ==
    (op = "Install" /\ pc = "idle" /\ ~euidRoot)
        => /\ result # "ok"
           /\ ~faulted => result = "PermissionDenied"
           /\ ~dataDir
           /\ ~descriptor.exists

\* C8 as stated: Start, Stop and Uninstall invoked with no service installed
\* do not return ok, and leave no descriptor.
C8_NotInstalledRejected ==
    (pc = "idle" /\ op \in {"Start", "Stop", "Uninstall"} /\ ~preExists)
        => (result # "ok" /\ ~descriptor.exists)

\* C8 as amended: Start, Stop and Uninstall invoked with no service installed
\* leave no descriptor; on Windows each returns an error (NotInstalled, or
\* PermissionDenied when the service manager cannot be opened); on systemd
\* and launchd Uninstall tolerates the missing descriptor and returns ok when
\* its own calls succeed.
C8_NotInstalledLeftAlone ==
    (pc = "idle" /\ op \in {"Start", "Stop", "Uninstall"} /\ ~preExists)
        => /\ ~descriptor.exists
           /\ backend = "windows" => result \in {"NotInstalled", "PermissionDenied"}
           /\ (backend = "windows" /\ euidRoot) => result = "NotInstalled"
           /\ (backend # "windows" /\ op = "Uninstall" /\ ~faulted
                 /\ (backend = "systemd" => euidRoot)) => result = "ok"

C8_Witness ==
    /\ pc = "idle" /\ op = "Uninstall" /\ ~preExists
    /\ backend = "systemd" /\ result = "ok"
    /\ ~descriptor.exists

C10_AuxCleanupNonFatal ==
    (op = "Uninstall" /\ pc = "idle" /\ preExists /\ ~descriptor.exists)
        => result = "ok"

\* C11: a Windows Install that registered the service although one of its
\* calls failed (setting the recovery actions or registering the event-log
\* source: no other call can fail once the service is created) returns ok,
\* with the service registered and, when it was installed stopped, Stopped.
C11_AuxRegistrationAdvisory ==
    (op = "Install" /\ pc = "idle" /\ backend = "windows" /\ faulted /\ ~preExists
        /\ descriptor.exists)
        => /\ result = "ok"
           /\ installedOk
           /\ ~startedOk => stateAtReturn = "Stopped"

C11_Witness ==
    /\ op = "Install" /\ pc = "idle" /\ backend = "windows" /\ faulted /\ ~preExists
    /\ descriptor.exists /\ ~recovery /\ eventSrc
    /\ result = "ok" /\ stateAtReturn = "Stopped" /\ ~startedOk

\* C12: a Status whose query of the supervisor failed reports Unknown or an
\* error, never a definite state.
C12_FailedQueryNotSynthesized ==
    (op = "Status" /\ pc = "idle" /\ faulted) => statusOut \in {"Unknown", "error"}

\* C13: a Status whose query is answered while the service is starting or
\* stopping reports StartPending or StopPending accordingly.
C13_PendingReported ==
    (op = "Status" /\ pc = "idle" /\ ~faulted /\ result = "ok"
        /\ stateAtReturn \in {"StartPending", "StopPending"} /\ preExists)
        => statusOut = stateAtReturn

\* C14: StatusFollow hands over to a telemetry session only when the service
\* is running.
C14_FollowOnlyRunning ==
    pc = "Following" => stateAtReturn = "Running"

\* C15: Logs never returns ok on its own: it returns an error, or it streams
\* until it is interrupted.
C15_LogsBlocksOrFails ==
    (op = "Logs" /\ pc = "idle") => result # "ok"

\* C16: within a session, a start time that is not zero is never changed.
C16_StartTimeImmutable ==
    [][~startTime.zero => startTime' = startTime]_vars

\* a start time derived from the log, and a later stats line, read at a
\* later time, that left it alone
C16_Witness ==
    /\ serviceStartTime.zero /\ ~startTime.zero
    /\ ppc = "unlock" /\ ~ParseStatsLine(line).nil /\ ~parseUptime(line.Uptime).err
    /\ parseUptime(line.Uptime).d # firstParsed.d
    /\ now > firstParsed.at
    /\ startTime = TimeAt(firstParsed.at - firstParsed.d)

C18_StickyConnected ==
    /\ [](nread = 0 => ~connected)
    /\ [][connected => connected']_vars
    /\ [][(~connected /\ connected') => (ppc = "connected" /\ IsConnectedLine(line))]_vars
    /\ [][(ppc = "connected" /\ ppc' # ppc /\ IsConnectedLine(line)) => connected']_vars
    /\ []((shownConnected /\ isTTY /\ cpc = "print") => status = "Connected")

\* Connected was printed, lines without the phrase were processed after
\* it, and the next tick is about to print Connected again
C18_Witness ==
    /\ shownConnected /\ isTTY /\ cpc = "print" /\ status = "Connected"
    /\ ~lastStats.nil /\ lastStats.Connected

\* what a tick prints for clients, upload and download comes from one sample
FromOneSample(c, u, d) ==
    \/ c = PlaceholderClients /\ u = PlaceholderBytes /\ d = PlaceholderBytes
    \/ \E l \in LogLines :
         LET smp == ParseStatsLine(l)
         IN  ~smp.nil /\ c = smp.Clients /\ u = smp.Upload /\ d = smp.Download

\* C19: while the display loop holds the mutex the reading goroutine is not
\* inside an update, what the loop has read is the latest sample, and the
\* clients, upload and download a tick prints all come from one stats line
\* (or are all placeholders).
C19_WholeSample ==
    /\ mu = "consumer" => ppc \in {"scan", "lock", "done"}
    /\ (cpc \in {"uptime", "unlock"} /\ mu = "consumer")
         => IF lastStats.nil
              THEN clients = PlaceholderClients /\ upload = PlaceholderBytes
                   /\ download = PlaceholderBytes
              ELSE clients = lastStats.Clients /\ upload = lastStats.Upload
                   /\ download = lastStats.Download
    /\ cpc = "print" => FromOneSample(clients, upload, download)
    /\ out.printed => FromOneSample(out.clients, out.upload, out.download)

\* a tick printed the second of two samples, whole
C19_Witness ==
    /\ out.printed /\ nread >= 2 /\ firstSample.seen
    /\ out.clients = "2" /\ out.upload = <<"3", "K">> /\ out.download = <<"4", "K">>
    /\ firstSample.d = 2

\* C20: the reading goroutine waits for a line, and the display loop waits
\* for a tick and prints, only with the mutex released: the mutex is held
\* by the goroutine only between its Lock and Unlock and by the loop only
\* between its Lock and Unlock, so with the goroutine waiting for a line the
\* loop's Lock finds the mutex free.
C20_NoBlockingUnderMutex ==
    /\ mu = "producer" <=> ppc \in {"connected", "stats", "startTime", "unlock"}
    /\ mu = "consumer"
         <=> cpc \in {"status", "clients", "upload", "download", "uptime", "unlock"}
    /\ (ppc = "scan" /\ cpc = "lock") => MuCanLock(mu)

\* the goroutine waits for a line, having processed some, while the loop
\* holds the mutex; and the loop took it with the goroutine waiting
C20_Witness ==
    /\ ppc = "scan" /\ nread >= 1 /\ mu = "consumer" /\ cpc = "status"


\* C21: once the reading goroutine has reached the end of the stream, the
\* display loop eventually stops and DisplayLiveStats returns.
C21_ReturnsAfterStreamEnd == (ppc = "done") ~> (cpc = "returned")

\* seconds a printed uptime stands for
UptimeValue(up) == SumUptime(up)

\* C22: in non-interactive mode the uptime a tick prints is not below the
\* uptime the tick before it printed (the placeholder "..." comes first).
C22_UptimeNonDecreasing ==
    (~isTTY /\ cpc = "print" /\ prevUptime # NoField /\ prevUptime # PlaceholderUptime)
        => (uptime # PlaceholderUptime /\ UptimeValue(prevUptime) <= UptimeValue(uptime))

\* the <H>h<M>m<S>s shorthand: the units are the last ones of h, m, s, the
\* first number is not zero unless it stands alone, the others are below 60
Shorthand(up) ==
    /\ Len(up) \in 1..3
    /\ \A k \in 1..Len(up) : up[k].u = <<"h", "m", "s">>[k + 3 - Len(up)]
    /\ Len(up) > 1 => up[1].n > 0
    /\ \A k \in 1..Len(up) : up[k].n >= 0 /\ (k > 1 => up[k].n < 60)

\* C23: with the start time T0 established and not ahead of the clock, the
\* uptime the display loop computes at time T stands for T - T0 seconds in
\* the shorthand without leading zero components; 125 seconds give "2m5s".
C23_UptimeIsElapsed ==
    [][(cpc = "uptime" /\ cpc' = "unlock" /\ ~startTime.zero /\ now >= startTime.at)
          => /\ UptimeValue(uptime') = now - startTime.at
             /\ Shorthand(uptime')
             /\ (now - startTime.at = 125
                    => uptime' = <<[n |-> 2, u |-> "m"], [n |-> 5, u |-> "s"]>>)]_vars

C23_Witness ==
    /\ cpc = "unlock"
    /\ now - startTime.at = 125
    /\ uptime = <<[n |-> 2, u |-> "m"], [n |-> 5, u |-> "s"]>>
    /\ ~lastStats.nil
    /\ lastStats.Uptime # uptime

\* C24: a tick rendered while no stats sample has arrived prints the
\* placeholders only: 0 clients, "0 B" up and down, "..." for the uptime
\* whether or not a start time was passed in, and status Waiting unless the
\* connection phrase was seen.
C24_PlaceholdersBeforeFirstSample ==
    (cpc = "print" /\ lastStats.nil)
        => /\ clients = PlaceholderClients
           /\ upload = PlaceholderBytes
           /\ download = PlaceholderBytes
           /\ uptime = PlaceholderUptime
           /\ (status = "Waiting" \/ phraseSeen)

\* C25: whenever the reading goroutine has processed every line it has read,
\* the stored sample is the parse of the last stats line among them, with the
\* connected flag of that moment, and is absent if there was none.
C25_LatestSampleOnly ==
    (ppc \in {"scan", "done"})
        => IF lastTagged.head # StatsTag THEN lastStats = NilStats
           ELSE /\ ~lastStats.nil
                /\ lastStats = [ParseStatsLine(lastTagged) EXCEPT !.Connected = lastStats.Connected]

C25_Witness ==
    /\ ppc = "scan"
    /\ nread = 2
    /\ firstSample.seen /\ firstSample.d = 2
    /\ lastTagged = StatsLineB
    /\ lastStats.Clients = "2"

\* a line without the stats tag and without the connection phrase
Unrecognised(l) == l.head # StatsTag /\ l.head # ConnectedPhrase

\* C26: while the reading goroutine processes a line that is neither a stats
\* line nor has the connection phrase, the latest sample, the connected flag
\* and the start time stay as they are, and the goroutine goes through lock,
\* the two tests and unlock back to reading the next line.
C26_UnrecognisedLineNoEffect ==
    [][(ppc \in {"lock", "connected", "stats", "unlock"} /\ Unrecognised(line))
          => /\ UNCHANGED <<lastStats, connected, startTime>>
             /\ <<ppc, ppc'>> \in {<<"lock", "lock">>, <<"lock", "connected">>,
                                   <<"connected", "connected">>, <<"connected", "stats">>,
                                   <<"stats", "stats">>, <<"stats", "unlock">>,
                                   <<"unlock", "unlock">>, <<"unlock", "scan">>}]_vars

C26_Witness ==
    /\ ppc = "unlock"
    /\ Unrecognised(line)
    /\ nread = 3
    /\ ~lastStats.nil
    /\ connected
    /\ ~startTime.zero

\* C27: the mode of a session never changes, and what a tick writes has the
\* shape of the mode: on a terminal the cursor goes up 5 lines and 5 lines
\* are written, else one line is written and the cursor is not moved.
C27_FixedShape ==
    /\ [](out.printed =>
            IF isTTY THEN out.cursorUp = 5 /\ out.lines = 5
            ELSE out.cursorUp = 0 /\ out.lines = 1)
    /\ [][isTTY' = isTTY]_vars

C27_Witness ==
    /\ isTTY
    /\ out.printed
    /\ out.cursorUp = 5
    /\ out.lines = 5
    /\ out.status = "Connected"
    /\ ~lastStats.nil

\* C28: a stats line whose uptime field is the formatting of d whole seconds,
\* d >= 0, parses to d again, so the start time becomes the time of the
\* parse minus d; a field that is no duration is passed over without an
\* error, the start time stays unset, and the goroutine goes on.
C28_UptimeRoundTrip ==
    (ppc \in {"unlock", "scan"})
        => /\ firstSample.seen
           /\ IF relayUptime >= 0
                THEN /\ ~firstSample.err
                     /\ firstSample.d = relayUptime
                     /\ startTime = TimeAt(firstSample.at - relayUptime)
                ELSE /\ firstSample.err
                     /\ startTime.zero
                     /\ ~lastStats.nil

C28_Witness ==
    /\ ppc = "scan"
    /\ relayUptime = 3725
    /\ lastStats.Uptime = <<[n |-> 1, u |-> "h"], [n |-> 2, u |-> "m"], [n |-> 5, u |-> "s"]>>
    /\ firstSample.d = 3725
    /\ startTime = TimeAt(firstSample.at - 3725)

\* C29: while StatusFollow follows, the start time it passed to the session
\* is set exactly when the platform's timestamp was obtained and parsed, and
\* is the zero time otherwise; and a StatusFollow that got past its check
\* fails only when the log command does not start.
C29_StartTimeWhenResolved ==
    /\ (pc = "Following")
          => /\ stamp \in Stamps(backend)
             /\ (stamp = "ok") <=> ~serviceStartTime.zero
             /\ startTime = serviceStartTime
    /\ (pc = "idle" /\ op = "StatusFollow" /\ result = "BackendFailure") => faulted

C29_Witness ==
    /\ pc = "Following"
    /\ backend = "launchd"
    /\ stamp = "noPid"
    /\ serviceStartTime = ZeroTime

\* C30 as stated: what Execute has reported is StartPending, then Running,
\* then StopPending only after Running, as the last report and only for a
\* Stop or Shutdown request; and there is no StopPending among the reports
\* when the relay function ended on its own.
C30_NoStopPendingOnOwnEnd ==
    /\ Len(reports) >= 1 => reports[1] = "StartPending"
    /\ Len(reports) >= 2 => reports[2] = "Running"
    /\ \A k \in 3..Len(reports) :
          \/ reports[k] = "Running"
          \/ reports[k] = "StopPending" /\ k = Len(reports) /\ via = "request"
    /\ ownEnd => \A k \in 1..Len(reports) : reports[k] # "StopPending"

\* C30, amended: what Execute has reported is StartPending, then Running,
\* then the answers to Interrogate, which repeat Running, and then at most
\* StopPending as the last report, sent only on the path of a Stop or
\* Shutdown request; when Execute leaves its loop by receiving the result of
\* the relay function there is none.
C30_ReportsInLifecycleOrder ==
    /\ Len(reports) >= 1 => reports[1] = "StartPending"
    /\ Len(reports) >= 2 => reports[2] = "Running"
    /\ \A k \in 3..Len(reports) :
          \/ reports[k] = "Running"
          \/ reports[k] = "StopPending" /\ k = Len(reports) /\ via = "request"
    /\ via = "errChan" => \A k \in 1..Len(reports) : reports[k] # "StopPending"
    /\ xpc \in {"select", "cancel", "wait", "returned"} => Len(reports) >= 2

C30_Witness ==
    /\ xpc = "returned"
    /\ via = "request"
    /\ reports = <<"StartPending", "Running", "Running", "StopPending">>
    /\ ownEnd

\* C31: on the path of a Stop or Shutdown request Execute has cancelled the
\* context before it waits, and when it has returned by that path the relay
\* function has returned and its goroutine has delivered the result.
C31_StopWaitsForRelay ==
    /\ (xpc = "wait") => ctxDone
    /\ (xpc = "returned" /\ via = "request") => (ctxDone /\ rpc = "done")

C31_Witness ==
    /\ xpc = "returned"
    /\ via = "request"
    /\ rpc = "done"
    /\ ~ownEnd
    /\ relayErr = "err"

\* C32: the goroutine of the relay function never finds errChan full and
\* always delivers its result; and once the relay function has returned or
\* a Stop or Shutdown request is arriving, Execute eventually returns.
C32_ExecuteTerminates ==
    /\ [](rpc = "send" => errChan = "empty")
    /\ (rpc = "send") ~> (rpc = "done")
    /\ (rpc \in {"send", "done"} \/ request \in {"Stop", "Shutdown"}) ~> (xpc = "returned")

C32_Witness ==
    /\ xpc = "returned"
    /\ via = "request"
    /\ ownEnd
    /\ nreq = 1
    /\ relayErr = "nil"
    /\ errChan = "empty"

\* C33: when Execute has returned, its exit code is 1 exactly when the relay
\* function returned an error before Execute took any Stop or Shutdown
\* request, and 0 otherwise.
C33_ExitCodeTellsHowRelayEnded ==
    (xpc = "returned") => ((exitCode = 1) <=> (relayErr = "err" /\ endedFirst))

\* C34: the wait of the Windows Uninstall makes at most 30 polls, can always
\* take its next step, can at every poll leave for the delete (the query
\* failing), and each step either counts one more poll or leaves for the delete; the Uninstall returns only from the delete, which can
\* always be attempted, whatever the state of the service.
C34_UninstallWaitBounded ==
    /\ [](pc = "UnWait" => (backend = "windows" /\ waitI <= UninstallWaitPolls
                               /\ ENABLED UninstallWait
                               /\ ENABLED (UninstallWait /\ pc' = "UnRemove")))
    /\ [](pc = "UnRemove" => ENABLED UninstallRemove)
    /\ [][pc = "UnWait" =>
            \/ pc' = "UnWait" /\ waitI' \in {waitI, waitI + 1}
            \/ pc' = "UnRemove" /\ waitI' = waitI]_vars
    /\ [][(pc = "UnWait" /\ waitI = UninstallWaitPolls /\ waitI' = waitI /\ pc' = "UnWait")
            => svcState' # svcState]_vars
    /\ [][(pc = "UnRemove" /\ pc' # "UnRemove") => (pc' = "idle" /\ op' = "Uninstall")]_vars

C34_Witness ==
    /\ backend = "windows"
    /\ pc = "UnRemove"
    /\ waitI = UninstallWaitPolls
    /\ svcState # "Stopped"
    /\ stopIssued

\* C35: when an Install has returned an error and no descriptor existed
\* when it was invoked, none exists after it, on every backend.
C35_InstallAllOrNothing ==
    (pc = "idle" /\ op = "Install" /\ result # "ok" /\ ~preExists) => ~descriptor.exists

\* the value the descriptor's argument list carries for flag
Encoded(args, flag, default) ==
    IF \E k \in 1..(Len(args) - 1) : args[k] = flag
    THEN LET at == CHOOSE k \in 1..(Len(args) - 1) : args[k] = flag
         IN  args[at + 1]
    ELSE default

\* C36: while StatusFollow follows, the Max Clients and Bandwidth of its
\* header are the values the descriptor's argument list carries, and 200 and
\* 5 only when it carries none, on every backend.
C36_HeaderShowsInstalledOptions ==
    (pc = "Following")
        => /\ header.maxClients = Encoded(descriptor.args, "--max-clients", "200")
           /\ header.bandwidth = Encoded(descriptor.args, "--bandwidth", "5")


\* C37: in the foreground start command a signal cancels the context of the
\* relay; when runStart has returned, an error the relay returned after the
\* cancellation is not reported (it printed "Stopped." and returned nil), and
\* an error the relay returned while the context was not cancelled made it
\* return an error
C37_ErrorReportedUnlessCancelled ==
    /\ (sigpc = "done") => startCtx
    /\ (spc = "returned" /\ runErr = "err" /\ ~failedAlone) =>
           /\ startResult = "nil"
           /\ startOut[Len(startOut)] = "Stopped."
    /\ (spc = "returned" /\ runErr = "err" /\ failedAlone) => startResult = "error"


\* C38: c.results is replaced only by the result of a collection that
\* captured addresses and looked them up: a collection whose capture fails or
\* is empty leaves it as it was; and a call of GetResults returns a slice that
\* is never nil and whose items are those of c.results as it was when the
\* call took the read lock, whatever the collector does during the call.
C38_SnapshotWholeOrUnchanged ==
    /\ [][(results' # results) => (gpc = "publish" /\ results' = found)]_vars
    /\ [][(found' # found /\ ~found'.nil) => gpc = "lookup"]_vars
    /\ [][(gpc = "lookup" /\ gpc' # "lookup") =>
              /\ gpc' = "lock"
              /\ ~ips.err
              /\ Len(ips.list) > 0
              /\ ~found'.nil
              /\ found'.items \in LookupIPs(ips.list)]_vars
    /\ [][(gpc = "capture" /\ gpc' = "select") => results' = results]_vars
    /\ [](qpc # "panic")
    /\ []((qpc = "returned") => (~getOut.nil /\ getOut.items = atRLock.items))

\* a call has returned both items of the first collection while the second,
\* whose capture failed, has left them published
C38_Witness ==
    /\ qpc = "returned"
    /\ Len(getOut.items) = 2
    /\ getOut.items = results.items
    /\ gpc = "select"
    /\ ncollect = 2
    /\ ips.err

\* C39: once the context given to Start is cancelled the loop of run exits
\* (when Start started one); it exits from its select only, so that a
\* collection in progress goes on to its end, publishing what it found,
\* cancelled or not; and after it has exited no collection starts and
\* c.results stays.
C39_LoopExitsAfterCancel ==
    /\ gctx ~> (gpc \in {"exited", "failed"})
    /\ [][(gpc = "exited") =>
              (gpc' = "exited" /\ ncollect' = ncollect /\ results' = results)]_vars
    /\ [][(gpc' = "exited") => (gpc \in {"select", "exited"} /\ gctx)]_vars
    /\ [][(gpc \in Collecting) => (gpc' \in Collecting \cup {"select"})]_vars
    /\ [][(gpc = "publish") => (gpc' = "publish" \/ results' = found)]_vars

\* the context is cancelled while the second collection is in progress, and
\* it has gone on to the point of publishing what it found
C39_Witness ==
    /\ gctx
    /\ gpc = "publish"
    /\ ncollect = 2
    /\ results # found
    /\ Len(found.items) > 0

=============================================================================
